---------------------------- MODULE Spec2Model ----------------------------
(***************************************************************************)
(* Model of templates_cds_ff_mpt/mos/base.py (class MOSTechTSMC16): the    *)
(* design-rule geometry solvers.  Every solver is a class method that      *)
(* reads the class table tech_constants and returns a record or raises.    *)
(* A call's outcome is a record [status, val]: status "ok" with the        *)
(* returned value, or the name of the exception raised ("KeyError" with    *)
(* the missing key, "ValueError" with the offending value).                *)
(***************************************************************************)
EXTENDS Integers, Sequences, FiniteSets, TLC

VARIABLES
    tech_constants,   \* the class attribute MOSTechTSMC16.tech_constants
    call,             \* the solver call made: its name and arguments
    ret,              \* its outcome, Pending until the call is answered
    log               \* the calls answered so far, each with its outcome

vars == <<tech_constants, call, ret, log>>

-----------------------------------------------------------------------------
(* Python arithmetic and containers *)

\* a // b for b > 0 (floor division)
FloorDiv(a, b) == a \div b

\* -(-a // b): division rounded up
CeilDiv(a, b) == -((-a) \div b)

Max2(a, b) == IF a >= b THEN a ELSE b

Min2(a, b) == IF a <= b THEN a ELSE b

Max3(a, b, c) == Max2(Max2(a, b), c)

Min3(a, b, c) == Min2(Min2(a, b), c)

RECURSIVE Gcd(_, _)
Gcd(a, b) == IF b = 0 THEN a ELSE Gcd(b, a % b)

\* bag.math.lcm of a two-element list
Lcm2(a, b) == (a * b) \div Gcd(a, b)

\* list(range(a, b))
Range(a, b) == [i \in 1..Max2(0, b - a) |-> a + i - 1]

Ok(v) == [status |-> "ok", val |-> v]

Raise(exc, what) == [status |-> exc, val |-> what]

\* v is None (Python None is the string "None" here; v may be of any type)
IsNone(v) == ToString(v) = ToString("None")

\* The first key of the sequence keys that the table tab does not hold, or
\* "" when it holds them all: d[k] raises KeyError(k) at the first such key.
RECURSIVE FirstMissing(_, _)
FirstMissing(tab, keys) ==
    IF keys = <<>> THEN ""
    ELSE IF Head(keys) \notin DOMAIN tab THEN Head(keys)
    ELSE FirstMissing(tab, Tail(keys))

-----------------------------------------------------------------------------
(* Process constant table *)

\* The integer entries of the class attribute tech_constants (layout_unit
\* and resolution are floats that no solver modelled here reads).
TechConstantsTable ==
    [fin_h |-> 14, fin_pitch |-> 48, mp_cpo_sp |-> 19, mp_h |-> 40,
     mp_po_ovl |-> 16, mp_md_sp |-> 13, mp_spy |-> 34, md_w |-> 40,
     md_sp |-> 46, md_od_spy |-> 40, md_od_exty |-> 20, md_h_min |-> 68,
     v0_sp |-> 32, vx_sp |-> 42, cpo_h |-> 60, cpo_od_sp |-> 20,
     cpo_spy |-> 90, cpo_po_ency |-> 34, od_sp_nfin_max |-> 16,
     od_nfin_min |-> 2, od_nfin_max |-> 20, dum_od_fg_min |-> 2,
     dum_od_fg_space |-> 2, imp_od_ency |-> 45, imp_od_encx |-> 65,
     imp_wmin |-> 52, mx_area_min |-> 6176, m1_sp_max |-> 1600,
     m1_sp_bnd |-> 800, m1_fill_lmin |-> 200, m1_fill_lmax |-> 400,
     mx_spy_min |-> 64]

-----------------------------------------------------------------------------
(* Stores: what a call writes in place *)

\* The object a store lands on: the class table cls.tech_constants; a list
\* of the caller, reached through the call's argument arg under key; or a
\* dict or list made by the call itself and bound to a local name of method fn.
ClassTable == <<"class", "tech_constants">>

CallerList(arg, key) == <<"caller", arg, key>>

Own(fn, name) == <<"own", fn, name>>

\* obj[key] = item
SetItem(obj, key, item) == [obj |-> obj, op |-> "setitem", key |-> key, item |-> item]

\* obj.append(item) for each item of items, in order
Appends(obj, items) ==
    [k \in 1..Len(items) |-> [obj |-> obj, op |-> "append", key |-> "", item |-> items[k]]]

\* the dict d with d[key] = item
SetKey(d, key, item) == [k \in DOMAIN d \cup {key} |-> IF k = key THEN item ELSE d[k]]

\* the stores of a sequence that land on the object obj
stores_on(stores, obj) == SelectSeq(stores, LAMBDA st : st.obj = obj)

\* the dict d after the subscript assignments sets, applied in order
RECURSIVE dict_after(_, _, _)
dict_after(d, sets, i) ==
    IF i > Len(sets) THEN d
    ELSE dict_after(IF sets[i].op = "setitem" THEN SetKey(d, sets[i].key, sets[i].item) ELSE d,
                    sets, i + 1)

\* the arguments c of a call after the appends that land on lists of the
\* caller, applied in order: each lengthens the list it lands on
RECURSIVE args_after(_, _, _)
args_after(c, appends, i) ==
    IF i > Len(appends) THEN c
    ELSE args_after([c EXCEPT ![appends[i].obj[2]][appends[i].obj[3]] = Append(@, appends[i].item)],
                    appends, i + 1)

\* the arguments of a call after its stores: those of the stores that are
\* appends landing on a list of the caller
call_after(c, stores) ==
    args_after(c, SelectSeq(stores, LAMBDA st : st.obj[1] = "caller" /\ st.op = "append"), 1)

\* the class table after the stores of a call
tech_constants_after(tc, stores) == dict_after(tc, stores_on(stores, ClassTable), 1)

\* the stores of get_mos_tech_constants: all on the dict it makes
mos_tech_constants_stores(tc, lch_unit) ==
    LET constants == Own("get_mos_tech_constants", "constants")
    IN  IF lch_unit # 18 THEN <<>>
        ELSE <<SetItem(constants, "laygo_num_sd_per_track", 1),
               SetItem(constants, "num_sd_per_track", 1)>>
             \o (IF "md_w" \notin DOMAIN tc THEN <<>>
                 ELSE <<SetItem(constants, "laygo_conn_w", tc.md_w),
                        SetItem(constants, "mos_conn_w", tc.md_w),
                        SetItem(constants, "dum_conn_w", tc.md_w),
                        SetItem(constants, "m1_w", tc.md_w)>>)

\* get_mos_tech_constants(lch_unit): the per-channel-length table, or
\* ValueError for a channel length other than 18.
get_mos_tech_constants(tc, lch_unit) ==
    IF lch_unit # 18 THEN Raise("ValueError", lch_unit)
    ELSE IF "md_w" \notin DOMAIN tc THEN Raise("KeyError", "md_w")
    ELSE Ok([sd_pitch |-> 90,
             laygo_num_sd_per_track |-> 1, num_sd_per_track |-> 1,
             laygo_conn_w |-> tc.md_w, mos_conn_w |-> tc.md_w,
             dum_conn_w |-> tc.md_w, m1_w |-> tc.md_w])

-----------------------------------------------------------------------------
(* Via-stack sizing *)

\* get_gate_via_info(lch_unit); lch_unit is not read.
get_gate_via_info(tc, lch_unit) ==
    LET via_info == [h |-> <<32, 32, 32>>, w |-> <<32, 32, 32>>,
                     bot_encx |-> <<18, 4, 40>>, bot_ency |-> <<4, 40, 0>>,
                     top_encx |-> <<4, 40, 4>>, top_ency |-> <<40, 0, 40>>]
        miss == FirstMissing(tc, <<"mx_area_min", "md_w">>)
    IN  IF miss # "" THEN Raise("KeyError", miss)
        ELSE
        LET mx_area_min == tc.mx_area_min
            md_w        == tc.md_w
            v0_h        == via_info.h[1]
            v1_h        == via_info.h[2]
            v2_h        == via_info.h[3]
            v0_m1_ency  == via_info.top_ency[1]
            v1_m2_ency  == via_info.top_ency[2]
            v2_m3_ency  == via_info.top_ency[3]
            mx_h_min    == CeilDiv(mx_area_min, md_w)
            m1_h        == Max2(v0_h + 2 * v0_m1_ency, mx_h_min)
            m2_h        == v1_h + 2 * v1_m2_ency
            m3_h        == Max2(v2_h + 2 * v2_m3_ency, mx_h_min)
        IN  Ok([h |-> via_info.h, w |-> via_info.w,
                bot_encx |-> via_info.bot_encx, bot_ency |-> via_info.bot_ency,
                top_encx |-> via_info.top_encx, top_ency |-> via_info.top_ency,
                m1_h |-> m1_h, m2_h |-> m2_h, m3_h |-> m3_h])

\* get_ds_via_info(lch_unit, w, compact); lch_unit and compact are not read.
\* The constants are looked up in the order of the source, so the first
\* name missing from the table is the KeyError raised.
get_ds_via_info(tc, lch_unit, w) ==
    LET via_info == [h |-> <<32, 64, 64>>, w |-> <<32, 32, 32>>,
                     bot_encx |-> <<3, 4, 10>>, bot_ency |-> <<18, 20, 10>>,
                     top_encx |-> <<4, 10, 4>>, top_ency |-> <<40, 10, 20>>]
        miss == FirstMissing(tc, <<"fin_h", "fin_p", "md_od_exty", "md_h_min",
                                   "mx_area_min", "v0_sp", "md_w", "vx_sp">>)
    IN  IF miss # "" THEN Raise("KeyError", miss)
        ELSE
        LET fin_h       == tc.fin_h
            fin_p       == tc.fin_p
            md_od_exty  == tc.md_od_exty
            md_h_min    == tc.md_h_min
            mx_area_min == tc.mx_area_min
            v0_sp       == tc.v0_sp
            md_w        == tc.md_w
            vx_sp       == tc.vx_sp
            v0_h        == via_info.h[1]
            v0_md_ency  == via_info.bot_ency[1]
            v0_m1_ency  == via_info.top_ency[1]
            od_h        == (w - 1) * fin_p + fin_h
            md_h        == Max2(od_h + 2 * md_od_exty, md_h_min)
            num_v0      == FloorDiv(md_h - v0_md_ency * 2 - v0_sp, v0_sp + v0_h)
            v0_harr     == num_v0 * (v0_h + v0_sp) - v0_sp
            m1_h_v0     == v0_harr + 2 * v0_m1_ency
            v1_h        == via_info.h[2]
            v1_m1_ency  == via_info.bot_ency[2]
            v1_m2_ency  == via_info.top_ency[2]
            m2_h        == v1_h + 2 * v1_m2_ency
            m1_h_m2     == Max2(m1_h_v0, 2 * v1_m1_ency + 2 * v1_h + vx_sp)
            mx_h_min    == CeilDiv(mx_area_min, md_w)
            m1_h        == Max2(m1_h_m2, mx_h_min)
            v2_h        == via_info.h[3]
            v2_m3_ency  == via_info.top_ency[3]
            m3_h        == Max2(v2_h + 2 * v2_m3_ency, mx_h_min)
        IN  Ok([h |-> via_info.h, w |-> via_info.w,
                bot_encx |-> via_info.bot_encx, bot_ency |-> via_info.bot_ency,
                top_encx |-> via_info.top_encx, top_ency |-> via_info.top_ency,
                num_v0 |-> num_v0, md_h |-> md_h,
                m1_h |-> m1_h, m2_h |-> m2_h, m3_h |-> m3_h])

-----------------------------------------------------------------------------
(* Records published by the solvers *)

EdgeInfo(od_type) == [od_type |-> od_type]

ExtInfo(mx_margin, od_margin, md_margin, m1_margin, imp_min_w, mtype, thres, po_types, edgel_info, edger_info) ==
    [mx_margin |-> mx_margin, od_margin |-> od_margin, md_margin |-> md_margin,
     m1_margin |-> m1_margin, imp_min_w |-> imp_min_w, mtype |-> mtype,
     thres |-> thres, po_types |-> po_types, edgel_info |-> edgel_info,
     edger_info |-> edger_info]

RowInfo(od_x_list, od_y, od_type, po_y, md_y) ==
    [od_x_list |-> od_x_list, od_y |-> od_y, od_type |-> od_type,
     po_y |-> po_y, md_y |-> md_y]

AdjRowInfo(po_y, po_types) == [po_y |-> po_y, po_types |-> po_types]

FillInfo(layer, exc_layer, x_intv_list, y_intv_list) ==
    [layer |-> layer, exc_layer |-> exc_layer, x_intv_list |-> x_intv_list,
     y_intv_list |-> y_intv_list]

\* (1,) * fg
Ones(fg) == [i \in 1..fg |-> 1]

\* get_mos_layers(mos_type, threshold): the implant/well/threshold layers,
\* or Exception for a threshold outside the six known names.  Any mos_type
\* other than 'pch'/'ptap' takes the N flavor.
get_mos_layers(mos_type, threshold) ==
    LET base  == <<<<"FinArea", "fin48">>>>
        well  == IF mos_type = "pch" \/ mos_type = "ntap"
                 THEN Append(base, <<"NWell", "drawing">>) ELSE base
        isP   == mos_type = "pch" \/ mos_type = "ptap"
    IN  IF threshold = "lvt" \/ threshold = "fast"
        THEN Ok(Append(well, <<IF isP THEN "Plvt" ELSE "Nlvt", "drawing">>))
        ELSE IF threshold = "svt" \/ threshold = "standard"
        THEN Ok(Append(well, <<IF isP THEN "Psvt" ELSE "Nsvt", "drawing">>))
        ELSE IF threshold = "hvt" \/ threshold = "low_power"
        THEN Ok(Append(well, <<IF isP THEN "Phvt" ELSE "Nhvt", "drawing">>))
        ELSE Raise("Exception", threshold)

-----------------------------------------------------------------------------
(* Row geometry solver *)

\* get_mos_info, step 6: the layout_info dictionary of a transistor row
\* whose block spans blk_yb..blk_yt, with OD, MD and drain/source metal-1
\* at od_y, md_y and ds_m1_y
mos_layout(lch_unit, md_w, fg, sd_pitch, blk_yb, blk_yt, od_y, md_y, ds_m1_y, ds_dummy, mos_type, threshold, layers) ==
    LET lay_info_list == [i \in 1..Len(layers) |-> <<layers[i], 0, blk_yb, blk_yt>>]
        sub_type   == IF mos_type = "nch" THEN "ptap" ELSE "ntap"
        fill_info  == FillInfo(<<"M1", "drawing">>, "None", <<>>, <<ds_m1_y>>)
    IN  [lch_unit |-> lch_unit, md_w |-> md_w, fg |-> fg,
         sd_pitch |-> sd_pitch, array_box_xl |-> 0,
         array_box_y |-> <<blk_yb, blk_yt>>, draw_od |-> ~ds_dummy,
         row_info_list |-> <<RowInfo(<<<<0, fg>>>>, od_y, <<"mos", sub_type>>,
                                     <<blk_yb, blk_yt>>, md_y)>>,
         lay_info_list |-> lay_info_list, adj_info_list |-> <<>>,
         left_blk_info |-> "None", right_blk_info |-> "None",
         fill_info_list |-> <<fill_info>>, blk_type |-> "mos",
         imp_params |-> <<<<mos_type, threshold, blk_yb, blk_yt, blk_yb, blk_yt>>>>]

\* get_mos_info once its lookups succeeded: steps 1 to 6 on the constants
\* mos_constants, the gate and drain/source via stacks gv and dv, and the
\* layers get_mos_layers returned
mos_info_steps(tc, lch_unit, w, mos_type, threshold, fg, ds_dummy, mos_constants, gv, dv, layers) ==
        LET fin_h      == tc.fin_h
            fin_p      == tc.fin_pitch
            mp_cpo_sp  == tc.mp_cpo_sp
            cpo_od_sp  == tc.cpo_od_sp
            md_w       == tc.md_w
            cpo_h      == tc.cpo_h
            mp_h       == tc.mp_h
            mx_spy_min == tc.mx_spy_min
            sd_pitch   == mos_constants.sd_pitch
            m3_w       == mos_constants.mos_conn_w
            gv0_h      == gv.h[1]
            gv1_h      == gv.h[2]
            g_m1_ency  == gv.top_ency[1]
            g_m2_ency  == gv.top_ency[2]
            g_m1_h     == gv.m1_h
            g_m2_h     == gv.m2_h
            g_m3_h     == gv.m3_h
            dv1_h      == dv.h[2]
            dv2_h      == dv.h[3]
            ds_m1_bot_ency == dv.bot_ency[2]
            d_m3_ency  == dv.top_ency[3]
            md_h       == dv.md_h
            m1_h       == dv.m1_h
            m3_h       == dv.m3_h
            \* step 1: bottom CPO, gate and OD locations
            blk_yb     == 0
            cpo_bot_yb == blk_yb - FloorDiv(cpo_h, 2)
            cpo_bot_yt == cpo_bot_yb + cpo_h
            mp_yb      == cpo_bot_yt + mp_cpo_sp
            mp_yt      == mp_yb + mp_h
            mp_yc      == FloorDiv(mp_yt + mp_yb, 2)
            g_m1_yt0   == mp_yc + FloorDiv(gv0_h, 2) + g_m1_ency
            od_yc0     == g_m1_yt0 + mx_spy_min + FloorDiv(m1_h, 2)
            od_yc      == IF w % 2 = 0
                          THEN CeilDiv(od_yc0, fin_p) * fin_p
                          ELSE CeilDiv(od_yc0 - FloorDiv(fin_p, 2), fin_p) * fin_p
                               + FloorDiv(fin_p, 2)
            od_h       == (w - 1) * fin_p + fin_h
            od_yb      == od_yc - FloorDiv(od_h, 2)
            od_yt      == od_yb + od_h
            md_yb      == od_yc - FloorDiv(md_h, 2)
            md_yt      == md_yb + md_h
            ds_m1_yb   == od_yc - FloorDiv(m1_h, 2)
            ds_m1_yt   == ds_m1_yb + m1_h
            g_m1_yt    == ds_m1_yb - mx_spy_min
            g_m1_yb    == g_m1_yt - g_m1_h
            g_m1_yc    == FloorDiv(g_m1_yb + g_m1_yt, 2)
            \* step 2: top CPO location
            blk_yt0    == od_yt + cpo_od_sp + FloorDiv(cpo_h, 2)
            blk_yt     == CeilDiv(blk_yt0, fin_p) * fin_p
            \* step 3: gate M2/M3 locations
            g_m2_yt    == g_m1_yc + FloorDiv(gv1_h, 2) + g_m2_ency
            g_m2_yb    == g_m2_yt - g_m2_h
            g_m2_yc    == g_m2_yb + g_m2_yt
            g_m3_yt    == g_m2_yc + FloorDiv(g_m3_h, 2)
            g_m3_yb    == g_m3_yt - g_m3_h
            \* step 4: drain/source M3 locations
            d_v1_yc    == ds_m1_yt - ds_m1_bot_ency - FloorDiv(dv1_h, 2)
            d_m3_yb    == d_v1_yc - FloorDiv(dv2_h, 2) - d_m3_ency
            d_m3_yt    == d_m3_yb + m3_h
            s_v1_yc    == ds_m1_yb + ds_m1_bot_ency + FloorDiv(dv1_h, 2)
            s_m3_yt    == s_v1_yc + FloorDiv(dv2_h, 2) + d_m3_ency
            s_m3_yb    == s_m3_yt - m3_h
            \* step 5: extension information
            lr_edge_info == EdgeInfo("mos")
            mtype      == <<mos_type, mos_type>>
            po_types   == Ones(fg)
            ext_top_info == ExtInfo(blk_yt - d_m3_yt, blk_yt - od_yt, blk_yt - md_yt,
                                    blk_yt - ds_m1_yt, 0, mtype, threshold, po_types,
                                    lr_edge_info, lr_edge_info)
            ext_bot_info == ExtInfo(g_m3_yb - blk_yb, od_yb - blk_yb, md_yb - blk_yb,
                                    g_m1_yb - blk_yb, 0, mtype, threshold, po_types,
                                    lr_edge_info, lr_edge_info)
            \* step 6: layout information
            layout_info ==
                mos_layout(lch_unit, md_w, fg, sd_pitch, blk_yb, blk_yt, <<od_yb, od_yt>>,
                           <<md_yb, md_yt>>, <<ds_m1_yb, ds_m1_yt>>, ds_dummy,
                           mos_type, threshold, layers)
        IN  Ok([layout_info |-> layout_info,
                ext_top_info |-> ext_top_info, ext_bot_info |-> ext_bot_info,
                left_edge_info |-> <<lr_edge_info, <<>>>>,
                right_edge_info |-> <<lr_edge_info, <<>>>>,
                sd_yc |-> od_yc,
                g_conn_y |-> <<g_m3_yb, g_m3_yt>>,
                d_conn_y |-> <<d_m3_yb, d_m3_yt>>,
                s_conn_y |-> <<s_m3_yb, s_m3_yt>>,
                g_loc |-> <<<<g_m1_yb, g_m1_yt>>, <<g_m2_yb, g_m2_yt>>,
                            <<g_m3_yb, g_m3_yt>>>>,
                m3_w |-> m3_w, sd_pitch |-> sd_pitch, num_sd_per_track |-> 1])

\* get_mos_info(lch_unit, w, mos_type, threshold, fg, ds_dummy=...)
get_mos_info(tc, lch_unit, w, mos_type, threshold, fg, ds_dummy) ==
    LET miss == FirstMissing(tc, <<"fin_h", "fin_pitch", "mp_cpo_sp", "cpo_od_sp",
                                   "md_w", "cpo_h", "mp_h", "mx_spy_min", "vx_sp">>)
        mos_constants == get_mos_tech_constants(tc, lch_unit)
        gate_via_info == get_gate_via_info(tc, lch_unit)
        ds_via_info   == get_ds_via_info(tc, lch_unit, w)
        layers        == get_mos_layers(mos_type, threshold)
    IN  IF miss # "" THEN Raise("KeyError", miss)
        ELSE IF mos_constants.status # "ok" THEN mos_constants
        ELSE IF gate_via_info.status # "ok" THEN gate_via_info
        ELSE IF ds_via_info.status # "ok" THEN ds_via_info
        ELSE IF layers.status # "ok" THEN layers
        ELSE mos_info_steps(tc, lch_unit, w, mos_type, threshold, fg, ds_dummy, mos_constants.val, gate_via_info.val, ds_via_info.val, layers.val)

-----------------------------------------------------------------------------
(* Extension-block solver *)

\* Keys of tech_constants read by get_valid_extension_widths, in order.
ValidExtKeys == <<"fin_h", "fin_pitch", "od_sp_nfin_max", "od_nfin_min", "cpo_od_sp", "cpo_spy", "md_od_exty", "imp_od_ency", "mx_spy_min", "md_sp", "cpo_h", "md_h_min">>

\* a step 1 that leaves out the minimum implant widths
min_ext_w_no_implant(tc, top_ext_info, bot_ext_info) ==
    LET mx_margin == top_ext_info.mx_margin + bot_ext_info.mx_margin
        m1_margin == top_ext_info.m1_margin + bot_ext_info.m1_margin
        md_margin == top_ext_info.md_margin + bot_ext_info.md_margin
    IN  Max3(0, CeilDiv(tc.mx_spy_min - Min2(mx_margin, m1_margin), tc.fin_pitch),
             CeilDiv(tc.md_sp - md_margin, tc.fin_pitch))

\* get_valid_extension_widths step 1: the minimum extension width from the
\* wire line-end space, the MD space and the minimum implant widths.
min_ext_w(tc, top_ext_info, bot_ext_info) ==
    LET fin_p      == tc.fin_pitch
        mx_margin  == top_ext_info.mx_margin + bot_ext_info.mx_margin
        m1_margin  == top_ext_info.m1_margin + bot_ext_info.m1_margin
        w1         == Max2(0, CeilDiv(tc.mx_spy_min - Min2(mx_margin, m1_margin), fin_p))
        md_margin  == top_ext_info.md_margin + bot_ext_info.md_margin
    IN  Max3(w1, CeilDiv(tc.md_sp - md_margin, fin_p),
             CeilDiv(bot_ext_info.imp_min_w + top_ext_info.imp_min_w, fin_p))

\* step 2: the maximum extension width without dummy OD
max_ext_w_no_od(tc, top_ext_info, bot_ext_info) ==
    LET od_space_nfin == FloorDiv(top_ext_info.od_margin + bot_ext_info.od_margin
                                  + tc.fin_h, tc.fin_pitch)
    IN  tc.od_sp_nfin_max - od_space_nfin

\* a step 3 that keeps the dummy OD clear of the bottom row's implant only
min_ext_w_od_bottom_implant(tc, top_ext_info, bot_ext_info) ==
    LET fin_p       == tc.fin_pitch
        fin_p2      == FloorDiv(fin_p, 2)
        fin_h2      == FloorDiv(tc.fin_h, 2)
        cpo_h       == tc.cpo_h
        dum_md_yb   == -bot_ext_info.md_margin + tc.md_sp
        od_yb_max1a == Max2(dum_md_yb + tc.md_od_exty, FloorDiv(cpo_h, 2) + tc.cpo_od_sp)
        od_yb_max1  == CeilDiv(od_yb_max1a - fin_p2 + fin_h2, fin_p)
        od_yb_max2  == bot_ext_info.imp_min_w + tc.imp_od_ency
        od_yb_max   == Max2(od_yb_max1, CeilDiv(od_yb_max2 - fin_p2 + fin_h2, fin_p))
        dum_md_yt   == top_ext_info.md_margin - tc.md_sp
        od_yt_min1a == Min2(dum_md_yt - tc.md_od_exty, -FloorDiv(cpo_h, 2) - tc.cpo_od_sp)
        od_yt_min1  == FloorDiv(od_yt_min1a - fin_p2 - fin_h2, fin_p)
        od_yt_min   == od_yt_min1
        w_od1       == Max2(0, tc.od_nfin_min - (od_yt_min - od_yb_max) - 1) * fin_p
        w_od2       == Max2(w_od1, tc.cpo_spy + cpo_h)
        w_od3       == Max2(w_od2, tc.md_h_min - (dum_md_yt - dum_md_yb))
    IN  CeilDiv(w_od3, fin_p)

\* step 3: the minimum extension width with dummy OD
min_ext_w_od(tc, top_ext_info, bot_ext_info) ==
    LET fin_p       == tc.fin_pitch
        fin_p2      == FloorDiv(fin_p, 2)
        fin_h2      == FloorDiv(tc.fin_h, 2)
        cpo_h       == tc.cpo_h
        dum_md_yb   == -bot_ext_info.md_margin + tc.md_sp
        od_yb_max1a == Max2(dum_md_yb + tc.md_od_exty, FloorDiv(cpo_h, 2) + tc.cpo_od_sp)
        od_yb_max1  == CeilDiv(od_yb_max1a - fin_p2 + fin_h2, fin_p)
        od_yb_max2  == bot_ext_info.imp_min_w + tc.imp_od_ency
        od_yb_max   == Max2(od_yb_max1, CeilDiv(od_yb_max2 - fin_p2 + fin_h2, fin_p))
        dum_md_yt   == top_ext_info.md_margin - tc.md_sp
        od_yt_min1a == Min2(dum_md_yt - tc.md_od_exty, -FloorDiv(cpo_h, 2) - tc.cpo_od_sp)
        od_yt_min1  == FloorDiv(od_yt_min1a - fin_p2 - fin_h2, fin_p)
        od_yt_min2  == -top_ext_info.imp_min_w - tc.imp_od_ency
        od_yt_min   == Min2(od_yt_min1, FloorDiv(od_yt_min2 - fin_p2 - fin_h2, fin_p))
        w_od1       == Max2(0, tc.od_nfin_min - (od_yt_min - od_yb_max) - 1) * fin_p
        w_od2       == Max2(w_od1, tc.cpo_spy + cpo_h)
        w_od3       == Max2(w_od2, tc.md_h_min - (dum_md_yt - dum_md_yb))
    IN  CeilDiv(w_od3, fin_p)

\* A variant of get_valid_extension_widths that takes the no-dummy and
\* with-dummy regimes as seamless only when they overlap, so that two
\* regimes that merely touch are returned as two pieces with no height
\* left out between them.
get_valid_extension_widths_touching(tc, lch_unit, top_ext_info, bot_ext_info) ==
    LET w_min   == min_ext_w(tc, top_ext_info, bot_ext_info)
        w_no_od == max_ext_w_no_od(tc, top_ext_info, bot_ext_info)
        w_od    == min_ext_w_od(tc, top_ext_info, bot_ext_info)
    IN  IF w_od <= w_no_od
        THEN Ok(<<w_min>>)
        ELSE Ok(Append(Range(w_min, w_no_od + 1), w_od))

\* get_valid_extension_widths(lch_unit, top_ext_info, bot_ext_info);
\* lch_unit is not read.
get_valid_extension_widths(tc, lch_unit, top_ext_info, bot_ext_info) ==
    LET miss == FirstMissing(tc, ValidExtKeys)
    IN  IF miss # "" THEN Raise("KeyError", miss)
        ELSE
        LET w_min   == min_ext_w(tc, top_ext_info, bot_ext_info)
            w_no_od == max_ext_w_no_od(tc, top_ext_info, bot_ext_info)
            w_od    == min_ext_w_od(tc, top_ext_info, bot_ext_info)
        IN  IF w_od <= w_no_od + 1
            THEN Ok(<<w_min>>)
            ELSE Ok(Append(Range(w_min, w_no_od + 1), w_od))

\* _get_ext_dummy_loc, the MD of the dummy OD at od_y: as tall as the OD
\* plus its extension (at least md_h_min), centered on the OD, then moved
\* above md_yb_min and below md_yt_max
ext_dummy_md_y(tc, od_y, md_yb_min, md_yt_max) ==
    LET md_h_min == tc.md_h_min
        md_h     == Max2(md_h_min, od_y[2] - od_y[1] + 2 * tc.md_od_exty)
        od_yc    == FloorDiv(od_y[1] + od_y[2], 2)
        md_yb0   == od_yc - FloorDiv(md_h, 2)
        md_yt0   == md_yb0 + md_h
        mdlow    == md_yb0 < md_yb_min
        md_yb1   == IF mdlow THEN md_yb_min ELSE md_yb0
        md_yt1   == IF mdlow THEN Max2(md_yt0, md_yb1 + md_h_min) ELSE md_yt0
        mdhigh   == md_yt1 > md_yt_max
        md_yt    == IF mdhigh THEN md_yt_max ELSE md_yt1
        md_yb    == IF mdhigh THEN Min2(md_yt - md_h_min, md_yb1) ELSE md_yb1
    IN  <<md_yb, md_yt>>

\* a single-dummy placement that keeps the first guess: the OD centered in
\* the fin span, its MD centered on it, neither clamped to the rules
_get_ext_dummy_loc_unclamped(tc, lch_unit, bot_od_idx, top_od_idx, bot_cpo_yt, top_cpo_yb, bot_md_yt, top_md_yb, bot_imp_y, top_imp_y) ==
    LET fin_p   == tc.fin_pitch
        od_area == top_od_idx - bot_od_idx
        od_sp   == Min2(FloorDiv(od_area - tc.od_nfin_min, 2), tc.od_sp_nfin_max)
        od_nfin == od_area - (od_sp * 2) + 1
        od_yb   == (bot_od_idx + od_sp) * fin_p + FloorDiv(fin_p, 2) - FloorDiv(tc.fin_h, 2)
        od_yt   == od_yb + (od_nfin - 1) * fin_p + tc.fin_h
        md_h    == Max2(tc.md_h_min, od_yt - od_yb + 2 * tc.md_od_exty)
        md_yb   == FloorDiv(od_yb + od_yt, 2) - FloorDiv(md_h, 2)
    IN  <<<<<<od_yb, od_yt>>>>, <<<<md_yb, md_yb + md_h>>>>>>

\* _get_ext_dummy_loc: the location of the dummy OD and its MD when the
\* extension draws exactly one dummy.  lch_unit is not read.
_get_ext_dummy_loc(tc, lch_unit, bot_od_idx, top_od_idx, bot_cpo_yt, top_cpo_yb, bot_md_yt, top_md_yb, bot_imp_y, top_imp_y) ==
    LET cpo_od_sp   == tc.cpo_od_sp
        fin_p       == tc.fin_pitch
        fin_h       == tc.fin_h
        od_nfin_min == tc.od_nfin_min
        md_od_exty  == tc.md_od_exty
        imp_od_ency == tc.imp_od_ency
        md_sp       == tc.md_sp
        fin_p2      == FloorDiv(fin_p, 2)
        fin_h2      == FloorDiv(fin_h, 2)
        \* minimum OD coordinates
        md_yb_min   == bot_md_yt + md_sp
        md_yt_max   == top_md_yb - md_sp
        od_yb_min   == Max3(bot_cpo_yt + cpo_od_sp, md_yb_min + md_od_exty,
                            bot_imp_y + imp_od_ency)
        od_yt_max   == Min3(top_cpo_yb - cpo_od_sp, md_yt_max - md_od_exty,
                            top_imp_y - imp_od_ency)
        od_area     == top_od_idx - bot_od_idx
        od_sp       == Min2(FloorDiv(od_area - od_nfin_min, 2), tc.od_sp_nfin_max)
        od_nfin     == od_area - (od_sp * 2) + 1
        od_yb0      == (bot_od_idx + od_sp) * fin_p + fin_p2 - fin_h2
        od_yt0      == od_yb0 + (od_nfin - 1) * fin_p + fin_h
        \* make sure OD Y coordinates are legal
        od_h_min    == (od_nfin_min - 1) * fin_p + fin_h
        lowfix      == od_yb0 < od_yb_min
        od_yb1      == IF lowfix
                       THEN CeilDiv(od_yb_min - fin_p2 + fin_h2, fin_p) * fin_p
                            + fin_p2 - fin_h2
                       ELSE od_yb0
        od_yt1      == IF lowfix THEN Max2(od_yb1 + od_h_min, od_yt0) ELSE od_yt0
        highfix     == od_yt1 > od_yt_max
        od_yt       == IF highfix
                       THEN FloorDiv(od_yt_max - fin_p2 - fin_h2, fin_p) * fin_p
                            + fin_p2 + fin_h2
                       ELSE od_yt1
        od_yb       == IF highfix THEN Min2(od_yt - od_h_min, od_yb1) ELSE od_yb1
    IN  <<<<<<od_yb, od_yt>>>>,
          <<ext_dummy_md_y(tc, <<od_yb, od_yt>>, md_yb_min, md_yt_max)>>>>

\* Position of a threshold name in ascending alphabetical order, the order
\* of Python's <= on these strings: the six names get_mos_layers knows and
\* "ulvt", which it rejects and which sorts after all of them.
ThresRank(thres) ==
    CASE thres = "fast" -> 1
      [] thres = "hvt" -> 2
      [] thres = "low_power" -> 3
      [] thres = "lvt" -> 4
      [] thres = "standard" -> 5
      [] thres = "svt" -> 6
      [] thres = "ulvt" -> 7

\* get_ext_info, implant split (the six cases): the device types, the
\* thresholds and the index of the split candidate used.
ext_imp_split(top_ext_info, bot_ext_info, has_od) ==
    LET top_mtype0   == top_ext_info.mtype[1]
        top_row_type == top_ext_info.mtype[2]
        top_thres0   == top_ext_info.thres
        bot_mtype0   == bot_ext_info.mtype[1]
        bot_row_type == bot_ext_info.mtype[2]
        bot_thres0   == bot_ext_info.thres
        bot_imp  == IF bot_row_type = "nch" \/ bot_row_type = "ptap" THEN "nch" ELSE "pch"
        top_imp  == IF top_row_type = "nch" \/ top_row_type = "ptap" THEN "nch" ELSE "pch"
        bot_tran == bot_row_type = "nch" \/ bot_row_type = "pch"
        top_tran == top_row_type = "nch" \/ top_row_type = "pch"
        by_thres == IF ThresRank(bot_thres0) <= ThresRank(top_thres0) THEN 0 ELSE 1
        R(bm, bt, tm, tt, sep) == [bot_mtype |-> bm, bot_thres |-> bt,
                                   top_mtype |-> tm, top_thres |-> tt, sep_idx |-> sep]
    IN  IF bot_imp = top_imp
        THEN IF bot_tran # top_tran
             THEN R(bot_mtype0, bot_thres0, top_mtype0, top_thres0,
                    IF bot_tran THEN 0 ELSE 1)
             ELSE IF bot_tran
             THEN IF has_od
                  THEN R(bot_imp, bot_thres0, bot_imp, top_thres0, by_thres)
                  ELSE R(bot_mtype0, bot_thres0, top_mtype0, top_thres0, by_thres)
             ELSE R(bot_mtype0, bot_thres0, top_mtype0, top_thres0, by_thres)
        ELSE IF bot_tran # top_tran
             THEN IF bot_tran
                  THEN R(bot_mtype0, bot_thres0, bot_imp, bot_thres0, 1)
                  ELSE R(top_imp, top_thres0, top_mtype0, top_thres0, 0)
             ELSE IF bot_tran
             THEN R(bot_imp, bot_thres0, top_imp, top_thres0,
                    IF bot_imp = "nch" THEN 1 ELSE 0)
             ELSE R(bot_mtype0, bot_thres0, top_mtype0, top_thres0,
                    IF bot_imp = "nch" THEN 1 ELSE 0)

\* Keys of tech_constants read at the head of get_ext_info, in order.
ExtInfoKeys == <<"md_od_exty", "fin_h", "fin_pitch", "od_nfin_min", "od_nfin_max", "od_sp_nfin_max", "cpo_spy", "imp_od_ency", "md_h_min", "cpo_h">>

\* get_ext_info, steps placing the dummy rows: the OD and MD Y intervals
\* of the rows, from the helper's list of dummy OD rows in fin index.
ext_od_md_y_lists(tc, lch_unit, w, top_ext_info, bot_ext_info, od_fin_list) ==
    LET md_od_exty == tc.md_od_exty
        fin_h      == tc.fin_h
        fin_p      == tc.fin_pitch
        md_h_min   == tc.md_h_min
        cpo_h      == tc.cpo_h
        fin_p2     == FloorDiv(fin_p, 2)
        fin_h2     == FloorDiv(fin_h, 2)
        yt         == w * fin_p
        bot_od_yt_fin == FloorDiv(-bot_ext_info.od_margin - fin_p2 - fin_h2, fin_p)
        top_od_yb_fin == FloorDiv(yt + top_ext_info.od_margin - fin_p2 + fin_h2, fin_p)
        num_dod  == Len(od_fin_list)
        OdY(ab)  == <<fin_p2 - fin_h2 + ab[1] * fin_p, fin_p2 + fin_h2 + ab[2] * fin_p>>
        MdYOf(od_yb, od_yt) ==
            <<FloorDiv(od_yb + od_yt, 2) - FloorDiv(Max2(md_h_min, od_yt - od_yb + 2 * md_od_exty), 2),
              FloorDiv(od_yb + od_yt, 2) + FloorDiv(Max2(md_h_min, od_yt - od_yb + 2 * md_od_exty), 2)>>
        MdY(ab)  == MdYOf(OdY(ab)[1], OdY(ab)[2])
    IN  IF num_dod = 0 THEN <<<<<<0, 0>>>>, <<<<0, 0>>>>>>
        ELSE IF num_dod = 1
        THEN _get_ext_dummy_loc(tc, lch_unit, bot_od_yt_fin, top_od_yb_fin,
                                FloorDiv(cpo_h, 2), yt - FloorDiv(cpo_h, 2),
                                -bot_ext_info.md_margin, yt + top_ext_info.md_margin,
                                bot_ext_info.imp_min_w, yt - top_ext_info.imp_min_w)
        ELSE <<[i \in 1..num_dod |-> OdY(od_fin_list[i])],
               [i \in 1..num_dod |-> MdY(od_fin_list[i])]>>

\* get_ext_info, the two candidates imp_split_y for the implant split
ext_imp_split_y(tc, w, no_od, od_y_list) ==
    LET fin_p    == tc.fin_pitch
        yt       == w * fin_p
        yc       == FloorDiv(yt, 2)
        one_cpo  == w < CeilDiv(tc.cpo_spy + tc.cpo_h, fin_p)
        num_dod  == Len(od_y_list)
    IN  IF no_od
        THEN IF one_cpo THEN <<yc, yc>> ELSE <<0, yt>>
        ELSE IF num_dod % 2 = 0 THEN <<yc, yc>>
        ELSE <<od_y_list[FloorDiv(num_dod, 2) + 1][1] - tc.imp_od_ency,
               od_y_list[FloorDiv(num_dod, 2) + 1][2] + tc.imp_od_ency>>

\* get_ext_info, implant split point and the device types on each side
\* of it: imp_params as <<bot_mtype, bot_thres, top_mtype, top_thres, imp_ysep>>.
ext_imp_ysep(tc, w, top_ext_info, bot_ext_info, no_od, od_y_list) ==
    ext_imp_split_y(tc, w, no_od, od_y_list)[ext_imp_split(top_ext_info, bot_ext_info, ~no_od).sep_idx + 1]

\* get_ext_info for w > 0, the entries appended to lay_info_list (made
\* empty by the call) once the dummy rows are placed.  First the CutPoly
\* entries: one at the middle or two at the ends when there is no dummy
\* OD, else one below each dummy row and one at the top.  Then the entries
\* of the loop over imp_params, bottom side before top side, up to the
\* point where get_mos_layers raises.
ext_lays_appended(tc, w, top_ext_info, bot_ext_info, no_od, od_y_list) ==
    LET split    == ext_imp_split(top_ext_info, bot_ext_info, ~no_od)
        imp_ysep == ext_imp_ysep(tc, w, top_ext_info, bot_ext_info, no_od, od_y_list)
        cpo_h    == tc.cpo_h
        yt       == w * tc.fin_pitch
        yc       == FloorDiv(yt, 2)
        cpo_lay  == <<"CutPoly", "drawing">>
        one_cpo  == w < CeilDiv(tc.cpo_spy + cpo_h, tc.fin_pitch)
        num_dod  == Len(od_y_list)
        CpoYc(i) == IF i = 1 THEN 0
                    ELSE FloorDiv(od_y_list[i - 1][2] + od_y_list[i][1], 2)
        Cpo(y)   == <<cpo_lay, 0, y - FloorDiv(cpo_h, 2), y + FloorDiv(cpo_h, 2)>>
        cpo_lays == IF no_od
                    THEN IF one_cpo THEN <<Cpo(yc)>>
                         ELSE <<<<cpo_lay, 0, FloorDiv(-cpo_h, 2), FloorDiv(cpo_h, 2)>>,
                                Cpo(yt)>>
                    ELSE [i \in 1..num_dod |-> Cpo(CpoYc(i))] \o <<Cpo(yt)>>
        bot_lays == get_mos_layers(split.bot_mtype, split.bot_thres)
        top_lays == get_mos_layers(split.top_mtype, split.top_thres)
        ImpLays(lays, yb, yt_) == [i \in 1..Len(lays) |-> <<lays[i], 0, yb, yt_>>]
    IN  cpo_lays
        \o (IF bot_lays.status # "ok" THEN <<>>
            ELSE ImpLays(bot_lays.val, 0, imp_ysep)
                 \o (IF top_lays.status # "ok" THEN <<>>
                     ELSE ImpLays(top_lays.val, imp_ysep, yt)))

\* get_ext_info, the record returned for w > 0 once the row intervals and
\* the implant split are known and get_mos_layers answered for both sides.
ext_layout(tc, m1_w, sd_pitch, md_w, lch_unit, w, fg, top_ext_info, bot_ext_info, fill_y_list, no_od, od_y_list, md_y_list, split, imp_ysep) ==
    LET fin_p      == tc.fin_pitch
        cpo_h      == tc.cpo_h
        yt         == w * fin_p
        yc         == FloorDiv(yt, 2)
        lr_edge_info == EdgeInfo("dum")
        one_cpo  == w < CeilDiv(tc.cpo_spy + cpo_h, fin_p)
        num_dod  == Len(od_y_list)
        od_x_list == IF no_od THEN <<>> ELSE <<0, fg>>
        \* PO/CPO locations
        CpoYc(i) == IF i = 1 THEN 0
                    ELSE FloorDiv(od_y_list[i - 1][2] + od_y_list[i][1], 2)
        NextCpoYc(i) == IF i < num_dod THEN CpoYc(i + 1) ELSE yt
        po_y_list == IF no_od
                     THEN IF one_cpo THEN <<<<0, 0>>>> ELSE <<<<0, yt>>>>
                     ELSE [i \in 1..num_dod |-> <<CpoYc(i), NextCpoYc(i)>>]
        adj_row_list == IF no_od /\ one_cpo
                        THEN <<AdjRowInfo(<<0, yc>>, bot_ext_info.po_types),
                               AdjRowInfo(<<yc, yt>>, top_ext_info.po_types)>>
                        ELSE <<>>
        adj_edgel_infos == IF no_od /\ one_cpo
                           THEN <<bot_ext_info.edgel_info, top_ext_info.edgel_info>>
                           ELSE <<>>
        adj_edger_infos == IF no_od /\ one_cpo
                           THEN <<bot_ext_info.edger_info, top_ext_info.edger_info>>
                           ELSE <<>>
        imp_params == <<<<split.bot_mtype, split.bot_thres, 0, imp_ysep, 0, imp_ysep>>,
                        <<split.top_mtype, split.top_thres, imp_ysep, yt, imp_ysep, yt>>>>
        CurSub(od_y) == LET cur_mtype == IF Max2(od_y[1], od_y[2]) < imp_ysep
                                         THEN split.bot_mtype ELSE split.top_mtype
                        IN  IF cur_mtype = "nch" \/ cur_mtype = "ptap"
                            THEN "ptap" ELSE "ntap"
        row_info_list == [i \in 1..Min3(Len(od_y_list), Len(po_y_list), Len(md_y_list)) |->
                             RowInfo(od_x_list, od_y_list[i],
                                     <<"dum", CurSub(od_y_list[i])>>,
                                     po_y_list[i], md_y_list[i])]
        \* metal 1 fill
        fill_x_list == [i \in 1..Max2(0, fg + 1) |->
                           <<(i - 1) * sd_pitch - FloorDiv(m1_w, 2),
                             (i - 1) * sd_pitch + FloorDiv(m1_w, 2)>>]
        fill_info == FillInfo(<<"M1", "drawing">>, "None", fill_x_list, fill_y_list)
    IN  Ok([layout_info |->
               [lch_unit |-> lch_unit, md_w |-> md_w, fg |-> fg,
                sd_pitch |-> sd_pitch, array_box_xl |-> 0,
                array_box_y |-> <<0, yt>>, draw_od |-> TRUE,
                row_info_list |-> row_info_list,
                lay_info_list |-> ext_lays_appended(tc, w, top_ext_info, bot_ext_info,
                                                    no_od, od_y_list),
                adj_info_list |-> adj_row_list,
                left_blk_info |-> "None", right_blk_info |-> "None",
                fill_info_list |-> <<fill_info>>, blk_type |-> "ext",
                imp_params |-> imp_params],
            left_edge_info |-> <<lr_edge_info, adj_edgel_infos>>,
            right_edge_info |-> <<lr_edge_info, adj_edger_infos>>])

\* get_ext_info, after the implant split: the layers of each side are
\* looked up, then the record is assembled.
ext_with_split(tc, m1_w, sd_pitch, md_w, lch_unit, w, fg, top_ext_info, bot_ext_info, fill_y_list, no_od, od_y_list, md_y_list, split, imp_ysep) ==
    LET bot_lays == get_mos_layers(split.bot_mtype, split.bot_thres)
        top_lays == get_mos_layers(split.top_mtype, split.top_thres)
    IN  IF bot_lays.status # "ok" THEN bot_lays
        ELSE IF top_lays.status # "ok" THEN top_lays
        ELSE ext_layout(tc, m1_w, sd_pitch, md_w, lch_unit, w, fg, top_ext_info, bot_ext_info,
                        fill_y_list, no_od, od_y_list, md_y_list, split, imp_ysep)

\* get_ext_info, after the dummy rows are placed: od_md_y_lists is the pair
\* (od_y_list, md_y_list)
ext_with_rows(tc, m1_w, sd_pitch, md_w, lch_unit, w, fg, top_ext_info, bot_ext_info, fill_y_list, no_od, od_md_y_lists) ==
    ext_with_split(tc, m1_w, sd_pitch, md_w, lch_unit, w, fg, top_ext_info, bot_ext_info,
                   fill_y_list, no_od, od_md_y_lists[1], od_md_y_lists[2],
                   ext_imp_split(top_ext_info, bot_ext_info, ~no_od),
                   ext_imp_ysep(tc, w, top_ext_info, bot_ext_info, no_od, od_md_y_lists[1]))

\* get_ext_info once its lookups succeeded: the record for w = 0, and for
\* w > 0 the rows placed from od_fin_list, with metal-1 width m1_w
\* (mos_conn_w), source/drain pitch sd_pitch and MD width md_w.
ext_info_steps(tc, m1_w, sd_pitch, md_w, lch_unit, w, fg, top_ext_info, bot_ext_info, od_fin_list, fill_y_list) ==
    LET lr_edge_info == EdgeInfo("dum")
    IN  IF w = 0
        THEN Ok([layout_info |->
                    [lch_unit |-> lch_unit, md_w |-> md_w, fg |-> fg,
                     sd_pitch |-> sd_pitch, array_box_xl |-> 0,
                     array_box_y |-> <<0, 0>>, draw_od |-> TRUE,
                     row_info_list |-> <<>>,
                     lay_info_list |-> <<<<<<"CutPoly", "drawing">>, 0,
                                           FloorDiv(-tc.cpo_h, 2), FloorDiv(tc.cpo_h, 2)>>>>,
                     adj_info_list |-> <<>>,
                     left_blk_info |-> "None", right_blk_info |-> "None",
                     fill_info_list |-> <<>>, blk_type |-> "ext",
                     imp_params |-> "None"],
                 left_edge_info |-> <<lr_edge_info, <<>>>>,
                 right_edge_info |-> <<lr_edge_info, <<>>>>])
        ELSE ext_with_rows(tc, m1_w, sd_pitch, md_w, lch_unit, w, fg, top_ext_info, bot_ext_info,
                           fill_y_list, od_fin_list = <<>>,
                           ext_od_md_y_lists(tc, lch_unit, w, top_ext_info, bot_ext_info, od_fin_list))

\* get_ext_info(lch_unit, w, fg, top_ext_info, bot_ext_info).  od_fin_list
\* and fill_y_list stand for the lists returned by the two calls of the
\* library helper fill_symmetric_const_space (dummy OD rows in fin index,
\* metal-1 fill intervals).
get_ext_info(tc, lch_unit, w, fg, top_ext_info, bot_ext_info, od_fin_list, fill_y_list) ==
    LET miss == FirstMissing(tc, ExtInfoKeys)
        mos_constants == get_mos_tech_constants(tc, lch_unit)
        mosmiss == FirstMissing(mos_constants.val, <<"mos_conn_w", "sd_pitch", "md_w">>)
    IN  IF miss # "" THEN Raise("KeyError", miss)
        ELSE IF mos_constants.status # "ok" THEN mos_constants
        ELSE IF mosmiss # "" THEN Raise("KeyError", mosmiss)
        ELSE ext_info_steps(tc, mos_constants.val.mos_conn_w, mos_constants.val.sd_pitch,
                            mos_constants.val.md_w, lch_unit, w, fg, top_ext_info,
                            bot_ext_info, od_fin_list, fill_y_list)

-----------------------------------------------------------------------------
(* Substrate / tap row solver *)

\* get_substrate_info, step 5: the layout_info dictionary of a tap row whose
\* PO spans po_yb..po_yt, with OD and MD at od_y and md_y and the metal-1
\* fill over ds_conn_y; it carries no implant parameters
sub_layout(lch_unit, md_w, fg, sd_pitch, po_yb, po_yt, od_y, md_y, ds_conn_y, sub_type, layers) ==
    LET lay_info_list == [i \in 1..Len(layers) |-> <<layers[i], 0, po_yb, po_yt>>]
        fill_info  == FillInfo(<<"M1", "drawing">>, "None", <<>>, <<ds_conn_y>>)
    IN  [lch_unit |-> lch_unit, md_w |-> md_w, fg |-> fg,
         sd_pitch |-> sd_pitch, array_box_xl |-> 0,
         array_box_y |-> <<po_yb, po_yt>>, draw_od |-> TRUE,
         row_info_list |-> <<RowInfo(<<<<0, fg>>>>, od_y, <<"sub", sub_type>>,
                                     <<po_yb, po_yt>>, md_y)>>,
         lay_info_list |-> lay_info_list, adj_info_list |-> <<>>,
         left_blk_info |-> "None", right_blk_info |-> "None",
         fill_info_list |-> <<fill_info>>, blk_type |-> "sub",
         imp_params |-> "None"]

\* get_substrate_info(lch_unit, w, sub_type, threshold, fg, blk_pitch)
get_substrate_info(tc, lch_unit, w, sub_type, threshold, fg, blk_pitch) ==
    LET miss == FirstMissing(tc, <<"md_od_ext", "fin_h", "fin_pitch", "mp_h",
                                   "mp_cpo_sp", "mp_md_sp", "mp_spy", "cpo_h",
                                   "md_h_min", "md_w">>)
        mos_constants == get_mos_tech_constants(tc, lch_unit)
        via_info      == get_ds_via_info(tc, lch_unit, w)
        layers        == get_mos_layers(sub_type, threshold)
    IN  IF miss # "" THEN Raise("KeyError", miss)
        ELSE IF mos_constants.status # "ok" THEN mos_constants
        ELSE IF via_info.status # "ok" THEN via_info
        ELSE IF layers.status # "ok" THEN layers
        ELSE
        LET fin_h      == tc.fin_h
            fin_p      == tc.fin_pitch
            mp_h       == tc.mp_h
            mp_cpo_sp  == tc.mp_cpo_sp
            mp_md_sp   == tc.mp_md_sp
            mp_spy     == tc.mp_spy
            cpo_h      == tc.cpo_h
            md_h_min   == tc.md_h_min
            md_w       == tc.md_w
            fin_p2     == FloorDiv(fin_p, 2)
            fin_h2     == FloorDiv(fin_h, 2)
            sd_pitch   == mos_constants.val.sd_pitch
            \* od/md height
            od_h       == (w - 1) * fin_p + fin_h
            md_h       == Max2(md_h_min, od_h + 2 * tc.md_od_ext)
            md_od_ext  == FloorDiv(md_h - od_h, 2)
            \* step 1, 2: bottom CPO and bottom M0_PO
            cpo_bot_yt == FloorDiv(cpo_h, 2)
            mp_yb0     == Max2(FloorDiv(mp_spy, 2), cpo_bot_yt + mp_cpo_sp)
            mp_yt0     == mp_yb0 + mp_h
            \* step 3: OD coordinate
            od_bfin_yc0 == mp_yt0 + mp_md_sp + md_od_ext
            od_bfin_yc == CeilDiv(od_bfin_yc0 - fin_p2, fin_p) * fin_p + fin_p2
            od_yb0     == od_bfin_yc - fin_h2
            od_yt0     == od_yb0 + od_h
            cpo_top_yc0 == od_yt0 + od_yb0
            \* height quantization, then recenter OD
            pitch      == Lcm2(blk_pitch, fin_p)
            blk_h      == CeilDiv(cpo_top_yc0, pitch) * pitch
            cpo_top_yc == blk_h
            od_yb1     == FloorDiv(blk_h, 2) - FloorDiv(od_h, 2)
            od_yb      == FloorDiv(od_yb1 - fin_p2 + fin_h2, fin_p) * fin_p + fin_p2 - fin_h2
            od_yt      == od_yb + od_h
            od_yc      == FloorDiv(od_yb + od_yt, 2)
            \* MD Y coordinates
            md_yb      == FloorDiv(od_yb + od_yt - md_h, 2)
            md_yt      == md_yb + md_h
            \* step 3.5: MP Y coordinates, M1 upper and lower bound
            gv0_h      == via_info.val.h[1]
            top_ency   == via_info.val.top_ency[1]
            gm1_delta  == FloorDiv(gv0_h, 2) + top_ency
            mpb_yt     == md_yb - mp_md_sp
            mpb_yb     == mpb_yt - mp_h
            mpb_yc     == FloorDiv(mpb_yt + mpb_yb, 2)
            g_m1_yb    == mpb_yc - gm1_delta
            mpt_yb     == md_yt + mp_md_sp
            mpt_yt     == mpt_yb + mp_h
            mpt_yc     == FloorDiv(mpt_yb + mpt_yt, 2)
            g_m1_yt    == mpt_yc + gm1_delta
            \* step 4: PO locations
            po_yb      == 0
            po_yt      == cpo_top_yc
            \* step 5: layout information
            lr_edge_info == EdgeInfo("sub")
            ds_conn_y  == <<g_m1_yb, g_m1_yt>>
            layout_info ==
                sub_layout(lch_unit, md_w, fg, sd_pitch, po_yb, po_yt, <<od_yb, od_yt>>,
                           <<md_yb, md_yt>>, ds_conn_y, sub_type, layers.val)
            mtype      == <<sub_type, sub_type>>
            po_types   == Ones(fg)
            ext_top_info == ExtInfo(po_yt - g_m1_yt, po_yt - od_yt, po_yt - md_yt,
                                    po_yt - g_m1_yt, 0, mtype, threshold, po_types,
                                    lr_edge_info, lr_edge_info)
            ext_bot_info == ExtInfo(g_m1_yb - po_yb, od_yb - po_yb, md_yb - po_yb,
                                    g_m1_yb - po_yb, 0, mtype, threshold, po_types,
                                    lr_edge_info, lr_edge_info)
        IN  Ok([layout_info |-> layout_info, sd_yc |-> od_yc,
                ext_top_info |-> ext_top_info, ext_bot_info |-> ext_bot_info,
                left_edge_info |-> <<lr_edge_info, <<>>>>,
                right_edge_info |-> <<lr_edge_info, <<>>>>,
                blk_height |-> po_yt, gb_conn_y |-> ds_conn_y,
                ds_conn_y |-> ds_conn_y])

\* sorted(S) for a finite set of integers
RECURSIVE SortedSeq(_)
SortedSeq(S) ==
    IF S = {} THEN <<>>
    ELSE LET m == CHOOSE x \in S : \A y \in S : x <= y
         IN  <<m>> \o SortedSeq(S \ {m})

\* draw_substrate_connection, step 1 of the track selection: the loop
\* "for d in dhtr_set" visiting the dummy half-tracks in the order given;
\* each test reads the port set as updated so far.
RECURSIVE add_dummy_tracks(_, _)
add_dummy_tracks(phtr_set, order) ==
    IF order = <<>> THEN phtr_set
    ELSE LET d == Head(order)
         IN  add_dummy_tracks(IF (d + 2) \notin phtr_set /\ (d - 2) \notin phtr_set
                              THEN phtr_set \cup {d} ELSE phtr_set,
                              Tail(order))

\* step 2: the loop "for htr in range(0, 2 * fg + 1, 2)" from htr upward
RECURSIVE add_unused_tracks(_, _, _)
add_unused_tracks(phtr_set, htr, fg) ==
    IF htr >= 2 * fg + 1 THEN phtr_set
    ELSE add_unused_tracks(IF (htr + 2) \notin phtr_set /\ (htr - 2) \notin phtr_set
                           THEN phtr_set \cup {htr} ELSE phtr_set,
                           htr + 2, fg)

\* The track selection of draw_substrate_connection (dummy_only false).
\* Tracks are given doubled (2 * v, an integer for the half-integer track
\* indices v of the routing grid), so int(2 * v + 1) is v2 + 1.  order is
\* the iteration order of the set dhtr_set.
select_tracks(port_tracks, dum_tracks, fg, order) ==
    LET phtr0 == {port_tracks[i] + 1 : i \in 1..Len(port_tracks)}
        dhtr0 == {dum_tracks[i] + 1 : i \in 1..Len(dum_tracks)}
        phtr1 == add_dummy_tracks(phtr0, order)
        phtr2 == add_unused_tracks(phtr1, 0, fg)
    IN  [phtr_set |-> phtr2, dhtr_set |-> dhtr0 \cup phtr2]

\* The iteration orders of a set: its elements in any order.
Orders(S) ==
    {o \in [1..Cardinality(S) -> S] : \A i, j \in 1..Cardinality(S) : i # j => o[i] # o[j]}

\* draw_substrate_connection for one row with OD: the via X locations and
\* the pins added; raises what get_ds_via_info raises.
substrate_row(tc, lch_unit, sd_pitch, row_info, port_tracks, dum_tracks, dummy_only, is_guardring, order) ==
    LET fin_h    == tc.fin_h
        fin_p    == tc.fin_pitch
        sd_pitch2 == FloorDiv(sd_pitch, 2)
        od_yb    == row_info.od_y[1]
        od_yt    == row_info.od_y[2]
        od_start == row_info.od_x_list[1][1]
        od_stop  == row_info.od_x_list[1][2]
        fg       == od_stop - od_start
        xshift   == od_start * sd_pitch
        sub_type == row_info.od_type[2]
        port_name == IF sub_type = "ntap" THEN "VDD" ELSE "VSS"
        od_yc    == FloorDiv(od_yb + od_yt, 2)
        w        == FloorDiv(od_yt - od_yb - fin_h, fin_p) + 1
        via_info == get_ds_via_info(tc, lch_unit, w)
        sel      == select_tracks(port_tracks, dum_tracks, fg, order)
        m1_x_list == IF dummy_only
                     THEN [i \in 1..Len(dum_tracks) |-> sd_pitch2 * (dum_tracks[i] + 1)]
                     ELSE [i \in 1..Cardinality(sel.dhtr_set) |->
                              sd_pitch2 * SortedSeq(sel.dhtr_set)[i]]
        m3_x_list == IF dummy_only THEN <<>>
                     ELSE [i \in 1..Cardinality(sel.phtr_set) |->
                              sd_pitch2 * SortedSeq(sel.phtr_set)[i]]
        InList(x, l) == \E i \in 1..Len(l) : l[i] = x
        \* _draw_ds_via: M1 wires on every source/drain, pinned where listed
        m1_pin_x == SelectSeq([i \in 1..Max2(0, fg + 1) |-> xshift + (i - 1) * sd_pitch],
                              LAMBDA m1_xc : InList(m1_xc, m1_x_list))
        m3_pin_x == [i \in 1..Len(m3_x_list) |-> xshift + m3_x_list[i]]
    IN  IF via_info.status # "ok" THEN via_info
        ELSE Ok([port_name |-> port_name, w |-> w, od_yc |-> od_yc,
                 m1_x_list |-> m1_x_list, m3_x_list |-> m3_x_list,
                 m1_pin_x |-> m1_pin_x, m3_pin_x |-> m3_pin_x,
                 draw_mp |-> ~is_guardring])

\* draw_substrate_connection(template, layout_info, port_tracks, dum_tracks,
\* dummy_only, is_laygo, is_guardring): walks the rows from row i on; done
\* holds what the rows before drew.  Returns has_od with the drawn rows, or
\* the exception of the first row that raises.
RECURSIVE substrate_rows(_, _, _, _, _, _, _, _, _)
substrate_rows(tc, layout_info, i, done, port_tracks, dum_tracks, dummy_only, is_guardring, order) ==
    IF i > Len(layout_info.row_info_list)
    THEN Ok([has_od |-> done # <<>>, rows |-> done])
    ELSE LET row_info == layout_info.row_info_list[i]
         IN  IF row_info.od_y[2] > row_info.od_y[1]
             THEN LET r == substrate_row(tc, layout_info.lch_unit, layout_info.sd_pitch,
                                         row_info, port_tracks, dum_tracks, dummy_only,
                                         is_guardring, order)
                  IN  IF r.status # "ok" THEN r
                      ELSE substrate_rows(tc, layout_info, i + 1, Append(done, r.val),
                                          port_tracks, dum_tracks, dummy_only,
                                          is_guardring, order)
             ELSE substrate_rows(tc, layout_info, i + 1, done, port_tracks, dum_tracks,
                                 dummy_only, is_guardring, order)

draw_substrate_connection(tc, layout_info, port_tracks, dum_tracks, dummy_only, is_guardring, order) ==
    LET miss == FirstMissing(tc, <<"fin_h", "fin_pitch", "mp_md_sp", "mp_h", "mp_po_ovl">>)
    IN  IF miss # "" THEN Raise("KeyError", miss)
        ELSE substrate_rows(tc, layout_info, 1, <<>>, port_tracks, dum_tracks,
                            dummy_only, is_guardring, order)

-----------------------------------------------------------------------------
(* Edge / boundary solver *)

\* get_analog_end_info, the layout_info dictionary of an end block: no rows
\* and no fill, no implant parameters, and the edge tuples repeated in it
end_layout(lch_unit, md_w, fg, sd_pitch, arr_yt, lay_info_list, adj_info_list, adj_edge_infos) ==
    [lch_unit |-> lch_unit, md_w |-> md_w, fg |-> fg,
     sd_pitch |-> sd_pitch, array_box_xl |-> 0,
     array_box_y |-> <<0, arr_yt>>, draw_od |-> TRUE,
     row_info_list |-> <<>>, lay_info_list |-> lay_info_list,
     adj_info_list |-> adj_info_list,
     left_blk_info |-> "None", right_blk_info |-> "None",
     fill_info_list |-> <<>>, blk_type |-> "end",
     imp_params |-> "None",
     left_edge_info |-> <<EdgeInfo("sub"), adj_edge_infos>>,
     right_edge_info |-> <<EdgeInfo("sub"), adj_edge_infos>>]

\* get_analog_end_info once its lookups succeeded: cpo_h is the CPO height
\* of the branch taken (tech_constants['cpo_h_end'] at an end,
\* mos_constants['cpo_h'] otherwise), layers the implant layers of the row
analog_end_steps(tc, cpo_h, sd_pitch, lch_unit, fg, is_end, blk_pitch, layers) ==
    LET lr_edge_info == EdgeInfo("sub")
        Result(arr_yt, lay_info_list, adj_info_list, adj_edge_infos) ==
            Ok([layout_info |-> end_layout(lch_unit, tc.md_w, fg, sd_pitch, arr_yt,
                                           lay_info_list, adj_info_list, adj_edge_infos),
                left_edge_info |-> <<lr_edge_info, adj_edge_infos>>,
                right_edge_info |-> <<lr_edge_info, adj_edge_infos>>])
    IN  IF is_end
        THEN LET fin_p       == tc.fin_pitch
                 fin_p2      == FloorDiv(fin_p, 2)
                 fin_h2      == FloorDiv(tc.fin_h, 2)
                 cpo_h_mid   == tc.cpo_h
                 pitch       == Lcm2(blk_pitch, fin_p)
                 cpo_bot_yt0 == FloorDiv(cpo_h_mid, 2)
                 cpo_bot_yb0 == cpo_bot_yt0 - cpo_h
                 finbound_yb0 == 0 - fin_p2 - fin_h2
                 min_yb      == Min2(finbound_yb0, cpo_bot_yb0)
                 yshift      == IF min_yb < 0 THEN -FloorDiv(min_yb, pitch) * pitch ELSE 0
                 arr_yt      == yshift
                 cpo_bot_yt  == cpo_bot_yt0 + yshift
                 cpo_bot_yb  == cpo_bot_yb0 + yshift
                 finbound_yb == finbound_yb0 + yshift
                 finbound_yt == arr_yt + fin_p2 + fin_h2
                 cpo_bot_yc  == FloorDiv(cpo_bot_yb + cpo_bot_yt, 2)
                 po_yt       == arr_yt
                 po_yb       == cpo_bot_yt - tc.cpo_po_ency
                 adj_info_list  == IF po_yt > po_yb
                                   THEN <<AdjRowInfo(<<po_yb, po_yt>>, Ones(fg))>>
                                   ELSE <<>>
                 adj_edge_infos == IF po_yt > po_yb THEN <<lr_edge_info>> ELSE <<>>
                 LayY(lay)   == IF lay[1] = "FinArea"
                                THEN <<finbound_yb, finbound_yt>>
                                ELSE <<Min2(po_yb, cpo_bot_yc), arr_yt>>
                 imp_lays    == SelectSeq([i \in 1..Len(layers) |->
                                             <<layers[i], 0, LayY(layers[i])[1],
                                               LayY(layers[i])[2]>>],
                                          LAMBDA e : e[4] > e[3])
                 lay_info_list == <<<<<<"CutPoly", "drawing">>, 0, cpo_bot_yb, cpo_bot_yt>>>>
                                  \o imp_lays
             IN  Result(arr_yt, lay_info_list, adj_info_list, adj_edge_infos)
        ELSE Result(0, <<<<<<"CutPoly", "drawing">>, 0, FloorDiv(-cpo_h, 2),
                           FloorDiv(cpo_h, 2)>>>>, <<>>, <<>>)

\* get_analog_end_info(lch_unit, sub_type, threshold, fg, is_end, blk_pitch)
get_analog_end_info(tc, lch_unit, sub_type, threshold, fg, is_end, blk_pitch) ==
    LET miss == FirstMissing(tc, <<"fin_h", "fin_pitch", "cpo_po_ency", "md_w", "cpo_h">>)
        mos_constants == get_mos_tech_constants(tc, lch_unit)
        layers        == get_mos_layers(sub_type, threshold)
    IN  IF miss # "" THEN Raise("KeyError", miss)
        ELSE IF mos_constants.status # "ok" THEN mos_constants
        ELSE IF is_end
        THEN IF "cpo_h_end" \notin DOMAIN tc THEN Raise("KeyError", "cpo_h_end")
             ELSE IF layers.status # "ok" THEN layers
             ELSE analog_end_steps(tc, tc.cpo_h_end, mos_constants.val.sd_pitch, lch_unit,
                                   fg, is_end, blk_pitch, layers.val)
        ELSE IF "cpo_h" \notin DOMAIN mos_constants.val THEN Raise("KeyError", "cpo_h")
             ELSE analog_end_steps(tc, mos_constants.val.cpo_h, mos_constants.val.sd_pitch,
                                   lch_unit, fg, is_end, blk_pitch, <<>>)

-----------------------------------------------------------------------------
(* Edge, guard-ring and separator blocks *)

\* get_edge_tech_constants(lch_unit)
get_edge_tech_constants(tc, lch_unit) ==
    LET mos_constants == get_mos_tech_constants(tc, lch_unit)
    IN  IF "imp_od_encx" \notin DOMAIN tc THEN Raise("KeyError", "imp_od_encx")
        ELSE IF mos_constants.status # "ok" THEN mos_constants
        ELSE LET sd_pitch == mos_constants.val.sd_pitch
                 od_fg_margin == CeilDiv(tc.imp_od_encx - FloorDiv(sd_pitch - lch_unit, 2), sd_pitch)
             IN  Ok([gr_nf_min |-> 2, outer_fg |-> 3, gr_outer_fg |-> 0,
                     gr_sub_fg_margin |-> od_fg_margin, gr_sep_fg |-> od_fg_margin + 1,
                     cpo_extx |-> 34])

\* the stores of get_edge_tech_constants: those of its call of
\* get_mos_tech_constants, then one on the dict it makes
edge_tech_constants_stores(tc, lch_unit) ==
    IF "imp_od_encx" \notin DOMAIN tc THEN <<>>
    ELSE mos_tech_constants_stores(tc, lch_unit)
         \o (IF get_mos_tech_constants(tc, lch_unit).status # "ok" THEN <<>>
             ELSE <<SetItem(Own("get_edge_tech_constants", "constants"), "cpo_extx", 34)>>)

\* the stores of get_edge_info: those of its calls of
\* get_edge_tech_constants and get_mos_tech_constants
edge_info_stores(tc, lch_unit) ==
    edge_tech_constants_stores(tc, lch_unit)
    \o (IF get_edge_tech_constants(tc, lch_unit).status # "ok" THEN <<>>
        ELSE mos_tech_constants_stores(tc, lch_unit))

\* get_edge_info(grid, lch_unit, guard_ring_nf, top_layer, is_end); vm_pitch
\* stands for grid.get_block_size(top_layer, unit_mode=True)[0].
get_edge_info(tc, vm_pitch, lch_unit, guard_ring_nf, is_end) ==
    LET edge_constants == get_edge_tech_constants(tc, lch_unit)
        mos_constants  == get_mos_tech_constants(tc, lch_unit)
    IN  IF edge_constants.status # "ok" THEN edge_constants
        ELSE IF mos_constants.status # "ok" THEN mos_constants
        ELSE
        LET cpo_extx    == edge_constants.val.cpo_extx
            gr_nf_min   == edge_constants.val.gr_nf_min
            gr_sub_fg_margin == edge_constants.val.gr_sub_fg_margin
            gr_sep_fg   == edge_constants.val.gr_sep_fg
            sd_pitch    == mos_constants.val.sd_pitch
            left_margin == FloorDiv(sd_pitch - lch_unit, 2)
            max_encx    == Max2(left_margin, cpo_extx)
            xshift      == IF is_end THEN CeilDiv(max_encx - left_margin, vm_pitch) * vm_pitch ELSE 0
            cpo_xl      == IF is_end THEN left_margin - cpo_extx + xshift ELSE 0
            outer_fg    == IF guard_ring_nf = 0 THEN edge_constants.val.outer_fg
                           ELSE edge_constants.val.gr_outer_fg
            gr_sub_fg   == IF guard_ring_nf = 0 THEN 0
                           ELSE guard_ring_nf + 2 + 2 * gr_sub_fg_margin
            fg_tot      == IF guard_ring_nf = 0 THEN outer_fg
                           ELSE outer_fg + gr_sub_fg + gr_sep_fg
        IN  IF 0 < guard_ring_nf /\ guard_ring_nf < gr_nf_min
            THEN Raise("ValueError", guard_ring_nf)
            ELSE Ok([edge_width |-> fg_tot * sd_pitch + xshift, dx_edge |-> xshift,
                     cpo_xl |-> cpo_xl, outer_fg |-> outer_fg,
                     gr_sub_fg |-> gr_sub_fg, gr_sep_fg |-> gr_sep_fg])

\* (0,) * n + (1,) * m + (0,) * k
PoTypes(n, m, k) ==
    [i \in 1..(Max2(0, n) + Max2(0, m) + Max2(0, k)) |->
        IF i > Max2(0, n) /\ i <= Max2(0, n) + Max2(0, m) THEN 1 ELSE 0]

\* The loop "for mtype, thres, ... in imp_params: for lay in
\* get_mos_layers(sub_type, thres): new_lay_list.append((lay, xl, imp_yb,
\* imp_yt))" from entry i on, appending to acc; raises what get_mos_layers
\* raises.
RECURSIVE sub_imp_layers(_, _, _, _)
sub_imp_layers(imp_params, i, xl, acc) ==
    IF i > Len(imp_params) THEN Ok(acc)
    ELSE LET p        == imp_params[i]
             sub_type == IF p[1] = "nch" \/ p[1] = "ptap" THEN "ptap" ELSE "ntap"
             lays     == get_mos_layers(sub_type, p[2])
         IN  IF lays.status # "ok" THEN lays
             ELSE sub_imp_layers(imp_params, i + 1, xl,
                                 acc \o [k \in 1..Len(lays.val) |-> <<lays.val[k], xl, p[3], p[4]>>])

\* get_outer_edge_info once get_edge_info returned edge_info: the block
\* made of layout_info; mos_constants is what get_mos_tech_constants answers
\* when the edge has fingers
outer_edge_info_of(guard_ring_nf, layout_info, adj_blk_info, edge_info, mos_constants) ==
        LET lch_unit == layout_info.lch_unit
            edge_xl == edge_info.dx_edge
            cpo_xl  == Min2(edge_xl, edge_info.cpo_xl)
            rows    == layout_info.row_info_list
            row_info_list == [i \in 1..Len(rows) |-> [rows[i] EXCEPT !.od_x_list = <<>>]]
            lay_info_list == layout_info.lay_info_list
            imp_params    == layout_info.imp_params
            cpo_lays      == SelectSeq(lay_info_list, LAMBDA l : l[1][1] = "CutPoly")
            new_lay_list  ==
                IF guard_ring_nf = 0 \/ IsNone(imp_params)
                THEN Ok([i \in 1..Len(lay_info_list) |->
                            <<lay_info_list[i][1],
                              IF lay_info_list[i][1][1] = "CutPoly" THEN cpo_xl ELSE edge_xl,
                              lay_info_list[i][3], lay_info_list[i][4]>>])
                ELSE sub_imp_layers(imp_params, 1, edge_xl,
                                    [i \in 1..Len(cpo_lays) |->
                                        <<cpo_lays[i][1], cpo_xl, cpo_lays[i][3], cpo_lays[i][4]>>])
            adj_info_list == layout_info.adj_info_list
            adj_blk == IF IsNone(adj_blk_info)
                       THEN <<"None", [i \in 1..Len(adj_info_list) |-> "None"]>>
                       ELSE adj_blk_info
            fg      == edge_info.outer_fg
            IsOd(adj_edge_info) ==
                ~IsNone(adj_edge_info) /\ adj_edge_info.od_type \in {"mos", "sub"}
            new_adj_list ==
                IF fg > 0
                THEN [i \in 1..Min2(Len(adj_blk[2]), Len(adj_info_list)) |->
                         [adj_info_list[i] EXCEPT !.po_types =
                             IF IsOd(adj_blk[2][i]) THEN PoTypes(fg - 1, 1, 0) ELSE PoTypes(fg, 0, 0)]]
                ELSE <<>>
            sd_pitch == layout_info.sd_pitch
            m1_w     == mos_constants.val.mos_conn_w
            x_intv_list == IF fg > 0
                           THEN <<<<edge_xl + sd_pitch - FloorDiv(m1_w, 2),
                                    edge_xl + sd_pitch + FloorDiv(m1_w, 2)>>>>
                           ELSE <<>>
            fills    == layout_info.fill_info_list
            fill_info_list == [i \in 1..Len(fills) |-> [fills[i] EXCEPT !.x_intv_list = x_intv_list]]
        IN  IF new_lay_list.status # "ok" THEN new_lay_list
            ELSE IF fg > 0 /\ mos_constants.status # "ok" THEN mos_constants
            ELSE Ok([lch_unit |-> lch_unit, md_w |-> layout_info.md_w, fg |-> fg,
                     sd_pitch |-> sd_pitch, array_box_xl |-> edge_xl,
                     array_box_y |-> layout_info.array_box_y, draw_od |-> TRUE,
                     row_info_list |-> row_info_list, lay_info_list |-> new_lay_list.val,
                     adj_info_list |-> new_adj_list,
                     left_blk_info |-> EdgeInfo("None"), right_blk_info |-> adj_blk[1],
                     fill_info_list |-> fill_info_list,
                     blk_type |-> IF guard_ring_nf = 0 THEN "edge" ELSE "gr_edge"])

\* get_outer_edge_info(grid, guard_ring_nf, layout_info, top_layer, is_end,
\* adj_blk_info)
get_outer_edge_info(tc, vm_pitch, guard_ring_nf, layout_info, is_end, adj_blk_info) ==
    LET lch_unit  == layout_info.lch_unit
        edge_info == get_edge_info(tc, vm_pitch, lch_unit, guard_ring_nf, is_end)
    IN  IF edge_info.status # "ok" THEN edge_info
        ELSE outer_edge_info_of(guard_ring_nf, layout_info, adj_blk_info, edge_info.val, get_mos_tech_constants(tc, lch_unit))

\* get_gr_sub_info(guard_ring_nf, layout_info)
get_gr_sub_info(tc, guard_ring_nf, layout_info) ==
    LET lch_unit == layout_info.lch_unit
        edge_constants == get_edge_tech_constants(tc, lch_unit)
    IN  IF edge_constants.status # "ok" THEN edge_constants
        ELSE
        LET gr_nf_min == edge_constants.val.gr_nf_min
            gr_sub_fg_margin == edge_constants.val.gr_sub_fg_margin
            fg        == gr_nf_min + 2 + 2 * gr_sub_fg_margin
            od_x_list == <<<<gr_sub_fg_margin + 1, gr_sub_fg_margin + 1 + gr_nf_min>>>>
            rows      == layout_info.row_info_list
            row_info_list == [i \in 1..Len(rows) |->
                                 [rows[i] EXCEPT !.od_x_list = od_x_list,
                                                 !.od_type = <<"sub", rows[i].od_type[2]>>]]
            lay_info_list == layout_info.lay_info_list
            imp_params    == layout_info.imp_params
            new_lay_list  ==
                IF IsNone(imp_params) THEN Ok(lay_info_list)
                ELSE sub_imp_layers(imp_params, 1, 0,
                                    SelectSeq(lay_info_list, LAMBDA l : l[1][1] = "CutPoly"))
            po_types == PoTypes(gr_sub_fg_margin, gr_nf_min + 2, gr_sub_fg_margin)
            adjs     == layout_info.adj_info_list
            adj_info_list == [i \in 1..Len(adjs) |-> [adjs[i] EXCEPT !.po_types = po_types]]
            fills    == layout_info.fill_info_list
            fill_info_list == [i \in 1..Len(fills) |-> [fills[i] EXCEPT !.x_intv_list = <<>>]]
        IN  IF guard_ring_nf < gr_nf_min THEN Raise("ValueError", guard_ring_nf)
            ELSE IF new_lay_list.status # "ok" THEN new_lay_list
            ELSE Ok([lch_unit |-> lch_unit, md_w |-> layout_info.md_w, fg |-> fg,
                     sd_pitch |-> layout_info.sd_pitch, array_box_xl |-> 0,
                     array_box_y |-> layout_info.array_box_y, draw_od |-> TRUE,
                     row_info_list |-> row_info_list, lay_info_list |-> new_lay_list.val,
                     adj_info_list |-> adj_info_list,
                     left_blk_info |-> "None", right_blk_info |-> "None",
                     fill_info_list |-> fill_info_list, blk_type |-> "gr_sub"])

\* the entries the loop over imp_params appends to new_lay_list, up to the
\* point where get_mos_layers raises
RECURSIVE imp_layers_appended(_, _, _, _)
imp_layers_appended(imp_params, i, xl, acc) ==
    IF i > Len(imp_params) THEN acc
    ELSE LET p        == imp_params[i]
             sub_type == IF p[1] = "nch" \/ p[1] = "ptap" THEN "ptap" ELSE "ntap"
             lays     == get_mos_layers(sub_type, p[2])
         IN  IF lays.status # "ok" THEN acc
             ELSE imp_layers_appended(imp_params, i + 1, xl,
                                      acc \o [k \in 1..Len(lays.val) |-> <<lays.val[k], xl, p[3], p[4]>>])

\* a get_gr_sub_info whose new_lay_list is the caller's lay_info_list in
\* both branches
gr_sub_new_lay_list_aliased(layout_info) == CallerList("layout_info", "lay_info_list")

\* the list new_lay_list of get_gr_sub_info is bound to: the caller's
\* lay_info_list itself when imp_params is None (new_lay_list =
\* lay_info_list), a list built by a comprehension otherwise
gr_sub_new_lay_list(layout_info) ==
    IF IsNone(layout_info.imp_params)
    THEN CallerList("layout_info", "lay_info_list")
    ELSE Own("get_gr_sub_info", "new_lay_list")

\* the stores of get_gr_sub_info: those of get_edge_tech_constants, then
\* the appends to new_lay_list, made only when imp_params is not None
gr_sub_info_stores(tc, guard_ring_nf, layout_info) ==
    LET edge_constants == get_edge_tech_constants(tc, layout_info.lch_unit)
    IN  edge_tech_constants_stores(tc, layout_info.lch_unit)
        \o (IF edge_constants.status # "ok" THEN <<>>
            ELSE IF guard_ring_nf < edge_constants.val.gr_nf_min THEN <<>>
            ELSE IF IsNone(layout_info.imp_params) THEN <<>>
            ELSE Appends(gr_sub_new_lay_list(layout_info),
                         imp_layers_appended(layout_info.imp_params, 1, 0, <<>>)))

\* the stores of a get_outer_edge_info that ended as made: those of
\* get_edge_info, the appends to new_lay_list (built by a comprehension in
\* both branches) and to new_adj_list (made empty by the call), and those
\* of get_mos_tech_constants when the edge has fingers
outer_edge_info_stores(tc, vm_pitch, guard_ring_nf, layout_info, is_end, made) ==
    LET lch_unit  == layout_info.lch_unit
        edge_info == get_edge_info(tc, vm_pitch, lch_unit, guard_ring_nf, is_end)
    IN  edge_info_stores(tc, lch_unit)
        \o (IF edge_info.status # "ok" THEN <<>>
            ELSE (IF guard_ring_nf = 0 \/ IsNone(layout_info.imp_params) THEN <<>>
                  ELSE Appends(Own("get_outer_edge_info", "new_lay_list"),
                               imp_layers_appended(layout_info.imp_params, 1,
                                                   edge_info.val.dx_edge, <<>>)))
                 \o (IF made.status # "ok" THEN <<>>
                     ELSE Appends(Own("get_outer_edge_info", "new_adj_list"),
                                  made.val.adj_info_list)
                          \o (IF made.val.fg > 0 THEN mos_tech_constants_stores(tc, lch_unit)
                              ELSE <<>>)))

\* get_gr_sep_info(layout_info, adj_blk_info)
get_gr_sep_info(tc, layout_info, adj_blk_info) ==
    LET lch_unit == layout_info.lch_unit
        edge_constants == get_edge_tech_constants(tc, lch_unit)
        mos_constants  == get_mos_tech_constants(tc, lch_unit)
    IN  IF edge_constants.status # "ok" THEN edge_constants
        ELSE IF mos_constants.status # "ok" THEN mos_constants
        ELSE
        LET fg   == edge_constants.val.gr_sep_fg
            rows == layout_info.row_info_list
            row_info_list == [i \in 1..Len(rows) |-> [rows[i] EXCEPT !.od_x_list = <<>>]]
            adj_info_list == layout_info.adj_info_list
            new_adj_list ==
                [i \in 1..Min2(Len(adj_blk_info[2]), Len(adj_info_list)) |->
                    [adj_info_list[i] EXCEPT !.po_types =
                        IF adj_blk_info[2][i].od_type \in {"mos", "sub"}
                        THEN PoTypes(fg - 1, 1, 0) ELSE PoTypes(fg, 0, 0)]]
            m1_w == mos_constants.val.mos_conn_w
            x_intv_list == <<<<FloorDiv(-m1_w, 2), FloorDiv(m1_w, 2)>>>>
            fills == layout_info.fill_info_list
            fill_info_list == [i \in 1..Len(fills) |-> [fills[i] EXCEPT !.x_intv_list = x_intv_list]]
        IN  Ok([lch_unit |-> lch_unit, md_w |-> layout_info.md_w, fg |-> fg,
                sd_pitch |-> layout_info.sd_pitch, array_box_xl |-> 0,
                array_box_y |-> layout_info.array_box_y, draw_od |-> TRUE,
                row_info_list |-> row_info_list, lay_info_list |-> layout_info.lay_info_list,
                adj_info_list |-> new_adj_list,
                left_blk_info |-> "None", right_blk_info |-> adj_blk_info[1],
                fill_info_list |-> fill_info_list, blk_type |-> "gr_sep"])

\* the stores of a get_gr_sep_info that ended as made: those of
\* get_edge_tech_constants, the appends to new_adj_list (made empty by the
\* call), those of get_mos_tech_constants
gr_sep_info_stores(tc, layout_info, made) ==
    edge_tech_constants_stores(tc, layout_info.lch_unit)
    \o (IF made.status # "ok" THEN <<>>
        ELSE Appends(Own("get_gr_sep_info", "new_adj_list"), made.val.adj_info_list)
             \o mos_tech_constants_stores(tc, layout_info.lch_unit))

\* the stores of get_valid_extension_widths: the append of the with-dummy
\* minimum to width_list, a list made by list(range(...))
valid_extension_widths_stores(tc, lch_unit, top_ext_info, bot_ext_info) ==
    IF FirstMissing(tc, ValidExtKeys) # "" THEN <<>>
    ELSE IF min_ext_w_od(tc, top_ext_info, bot_ext_info)
                <= max_ext_w_no_od(tc, top_ext_info, bot_ext_info) + 1
    THEN <<>>
    ELSE Appends(Own("get_valid_extension_widths", "width_list"),
                 <<min_ext_w_od(tc, top_ext_info, bot_ext_info)>>)

\* the stores of a get_ext_info that ended as made, those on the lists it
\* returns: the stores of get_mos_tech_constants, then the appends to
\* lay_info_list and, when the call returns, to row_info_list, both made
\* empty by the call (for w = 0 the lists are written as literals).  A call
\* that ends in the Exception of get_mos_layers has made the appends to
\* lay_info_list that come before it; one that ends in a KeyError has not
\* reached lay_info_list.
ext_info_stores(tc, lch_unit, w, top_ext_info, bot_ext_info, od_fin_list, made) ==
    IF FirstMissing(tc, ExtInfoKeys) # "" THEN <<>>
    ELSE mos_tech_constants_stores(tc, lch_unit)
         \o (IF w = 0 \/ made.status \notin {"ok", "Exception"} THEN <<>>
             ELSE Appends(Own("get_ext_info", "lay_info_list"),
                          ext_lays_appended(tc, w, top_ext_info, bot_ext_info,
                                            od_fin_list = <<>>,
                                            ext_od_md_y_lists(tc, lch_unit, w, top_ext_info,
                                                              bot_ext_info, od_fin_list)[1]))
                  \o (IF made.status # "ok" THEN <<>>
                      ELSE Appends(Own("get_ext_info", "row_info_list"),
                                   made.val.layout_info.row_info_list)))

-----------------------------------------------------------------------------
(* Drawing a block on a template *)

\* BBox(left, bottom, right, top, res, unit_mode=True)
BBox(xl, yb, xr, yt) == <<xl, yb, xr, yt>>

\* BBox.is_physical(): positive width and height
is_physical(box) == box[3] > box[1] /\ box[4] > box[2]

\* BBox.extend(x=0, y=0): the smallest box holding the box and the origin
extend_origin(box) ==
    BBox(Min2(box[1], 0), Min2(box[2], 0), Max2(box[3], 0), Max2(box[4], 0))

\* one call made on the template; loop names the loop of draw_mos that
\* makes it ("row", "layer", "adj", "fill") or the step that sets the size
CanvasCall(op, loop, layer, box) ==
    [op |-> op, loop |-> loop, layer |-> layer, box |-> box]

\* the edge records draw_mos works with after its defaults are applied
left_edge_or_default(layout_info) ==
    IF IsNone(layout_info.left_blk_info)
    THEN IF layout_info.fg = 1 /\ ~IsNone(layout_info.right_blk_info)
         THEN layout_info.right_blk_info
         ELSE EdgeInfo("None")
    ELSE layout_info.left_blk_info

right_edge_or_default(layout_info) ==
    IF IsNone(layout_info.right_blk_info)
    THEN IF layout_info.fg = 1
         THEN left_edge_or_default(layout_info)
         ELSE EdgeInfo("None")
    ELSE layout_info.right_blk_info

\* the list index a store at index idx of a Python list of length n lands
\* on, counted from 0: a negative idx counts from the end of the list
ListIndex(idx, n) == IF idx < 0 THEN idx + n ELSE idx

\* po_on_od of a row once its od_x_list is marked: [False] * fg with
\* po_on_od[od_start - 1] set when od_start - 1 >= 0 and po_on_od[idx] set
\* for every idx < fg of range(od_start, od_stop + 1); element j + 1 of the
\* sequence is po_on_od[j]
po_on_od(row_info, fg) ==
    [j \in 1..Max2(fg, 0) |->
        /\ row_info.od_y[2] > row_info.od_y[1]
        /\ \E k \in 1..Len(row_info.od_x_list) :
              LET od_start == row_info.od_x_list[k][1]
                  od_stop  == row_info.od_x_list[k][2]
              IN  \/ od_start - 1 >= 0 /\ od_start - 1 = j - 1
                  \/ \E idx \in od_start..od_stop :
                         idx < fg /\ ListIndex(idx, fg) = j - 1]

\* md_on_od of a row once its od_x_list is marked: [False] * (fg + 1) with
\* md_on_od[idx] set for every idx of range(od_start, od_stop + 1)
md_on_od(row_info, fg) ==
    [j \in 1..Max2(fg + 1, 0) |->
        /\ row_info.od_y[2] > row_info.od_y[1]
        /\ \E k \in 1..Len(row_info.od_x_list) :
              \E idx \in row_info.od_x_list[k][1]..row_info.od_x_list[k][2] :
                  ListIndex(idx, fg + 1) = j - 1]

\* the OD rectangles of one row
draw_row_od(layout_info, row_info) ==
    LET od_type == row_info.od_type[1]
        od_lay  == IF IsNone(od_type) \/ ToString(od_type) = ToString("dum")
                   THEN <<"Active", "dummy">> ELSE <<"Active", "drawing">>
        po_xc   == layout_info.array_box_xl + FloorDiv(layout_info.sd_pitch, 2)
        lch2    == FloorDiv(layout_info.lch_unit, 2)
    IN  IF row_info.od_y[2] > row_info.od_y[1] /\ layout_info.draw_od
        THEN [k \in 1..Len(row_info.od_x_list) |->
                 CanvasCall("add_rect", "row", od_lay,
                            BBox(po_xc - lch2 + (row_info.od_x_list[k][1] - 1) * layout_info.sd_pitch,
                                 row_info.od_y[1],
                                 po_xc + lch2 + row_info.od_x_list[k][2] * layout_info.sd_pitch,
                                 row_info.od_y[2]))]
        ELSE <<>>

\* the PO rectangles of one row
draw_row_po(layout_info, row_info) ==
    LET fg      == layout_info.fg
        od_type == row_info.od_type[1]
        po_xc   == layout_info.array_box_xl + FloorDiv(layout_info.sd_pitch, 2)
        cur_od_type(idx) ==
            IF po_on_od(row_info, fg)[idx + 1] THEN od_type
            ELSE IF idx = 0 THEN left_edge_or_default(layout_info).od_type
            ELSE IF idx = fg - 1 THEN right_edge_or_default(layout_info).od_type
            ELSE "None"
        lay(idx) == IF ToString(cur_od_type(idx)) \in {ToString("mos"), ToString("sub")}
                    THEN <<"Poly", "drawing">> ELSE <<"Poly", "dummy">>
        po_xl(idx) == po_xc + idx * layout_info.sd_pitch - FloorDiv(layout_info.lch_unit, 2)
    IN  IF row_info.po_y[2] > row_info.po_y[1]
        THEN [k \in 1..Max2(fg, 0) |->
                 CanvasCall("add_rect", "row", lay(k - 1),
                            BBox(po_xl(k - 1), row_info.po_y[1],
                                 po_xl(k - 1) + layout_info.lch_unit, row_info.po_y[2]))]
        ELSE <<>>

\* the MD rectangles of a guard-ring tap row: fingers 1 .. fg - 1
RECURSIVE draw_row_md(_, _, _, _)
draw_row_md(layout_info, row_info, idx, acc) ==
    IF idx >= layout_info.fg THEN acc
    ELSE LET md_xl == layout_info.array_box_xl + idx * layout_info.sd_pitch
                          - FloorDiv(layout_info.md_w, 2)
             rect  == CanvasCall("add_rect", "row", <<"LiAct", "drawing">>,
                                 BBox(md_xl, row_info.md_y[1], md_xl + layout_info.md_w,
                                      row_info.md_y[2]))
         IN  draw_row_md(layout_info, row_info, idx + 1,
                         IF md_on_od(row_info, layout_info.fg)[idx + 1]
                         THEN Append(acc, rect) ELSE acc)

\* "for od_start, od_stop in od_x_list" cannot unpack its first element: the
\* row has OD and its od_x_list is the pair (0, fg) get_ext_info gives a row
\* of dummy OD, whose first element is the integer 0, not an interval.
od_x_list_not_intervals(row_info) ==
    /\ row_info.od_y[2] > row_info.od_y[1]
    /\ Len(row_info.od_x_list) > 0
    /\ ToString(row_info.od_x_list[1]) = ToString(0)

\* The first interval of the row's od_x_list that indexes past the lists
\* po_on_od ([False] * fg, empty for fg <= 0) and md_on_od ([False] * (fg + 1)),
\* or 0 when the row has no OD or no interval does: po_on_od[od_start - 1]
\* is indexed only when od_start - 1 >= 0, md_on_od[idx] for every idx of
\* range(od_start, od_stop + 1), po_on_od[idx] for those with idx < fg.
od_past_block(row_info, fg) ==
    LET n_po == Max2(fg, 0)
        n_md == Max2(fg + 1, 0)
        \* list[idx] of a list of n elements raises IndexError
        IndexPast(idx, n) == idx >= n \/ idx < -n
        past == {k \in 1..Len(row_info.od_x_list) :
                    LET od_start == row_info.od_x_list[k][1]
                        od_stop  == row_info.od_x_list[k][2]
                    IN  \/ od_start - 1 >= 0 /\ IndexPast(od_start - 1, n_po)
                        \/ \E idx \in od_start..od_stop :
                               \/ IndexPast(idx, n_md)
                               \/ idx < fg /\ IndexPast(idx, n_po)}
    IN  IF row_info.od_y[2] > row_info.od_y[1] /\ past # {}
        THEN CHOOSE k \in past : \A j \in past : k <= j
        ELSE 0

\* the OD rectangles drawn before interval k of the row raised: those of the
\* intervals before it (none when draw_od is False)
od_before(od_rects, k) ==
    IF Len(od_rects) = 0 THEN <<>> ELSE SubSeq(od_rects, 1, k - 1)

\* the loop over row_info_list.  In a block that is not a guard-ring tap the
\* MD loop starts at finger 0 and reads left_blk_info.draw_md, a field
\* EdgeInfo does not have: the call ends there with the canvas drawn so far.
RECURSIVE draw_rows(_, _, _)
draw_rows(layout_info, i, acc) ==
    IF i > Len(layout_info.row_info_list) THEN [status |-> "ok", val |-> "None", canvas |-> acc]
    ELSE IF od_x_list_not_intervals(layout_info.row_info_list[i])
    THEN [status |-> "TypeError", val |-> "od_x_list", canvas |-> acc]
    ELSE IF od_past_block(layout_info.row_info_list[i], layout_info.fg) # 0
    THEN [status |-> "IndexError", val |-> "od_x_list",
          canvas |-> acc \o od_before(draw_row_od(layout_info, layout_info.row_info_list[i]),
                                      od_past_block(layout_info.row_info_list[i], layout_info.fg))]
    ELSE LET row_info == layout_info.row_info_list[i]
             od_po    == acc \o draw_row_od(layout_info, row_info)
                             \o draw_row_po(layout_info, row_info)
         IN  IF row_info.md_y[2] > row_info.md_y[1] /\ layout_info.fg > 0
             THEN IF layout_info.blk_type = "gr_sub"
                  THEN draw_rows(layout_info, i + 1,
                                 od_po \o draw_row_md(layout_info, row_info, 1, <<>>))
                  ELSE [status |-> "AttributeError", val |-> "draw_md", canvas |-> od_po]
             ELSE draw_rows(layout_info, i + 1, od_po)

\* the loop over lay_info_list
RECURSIVE draw_layers(_, _, _, _)
draw_layers(tc, layout_info, i, acc) ==
    IF i > Len(layout_info.lay_info_list) THEN acc
    ELSE LET imp_lay    == layout_info.lay_info_list[i][1]
             xl         == layout_info.lay_info_list[i][2]
             fin_pitch  == tc.fin_pitch
             fin_pitch2 == FloorDiv(tc.fin_pitch, 2)
             fin_h2     == FloorDiv(tc.fin_h, 2)
             blk_w      == layout_info.fg * layout_info.sd_pitch + layout_info.array_box_xl
             yb == IF imp_lay[1] = "FinArea"
                   THEN FloorDiv(layout_info.lay_info_list[i][3] - fin_pitch2 + fin_h2, fin_pitch)
                            * fin_pitch + fin_pitch2 - fin_h2
                   ELSE layout_info.lay_info_list[i][3]
             yt == IF imp_lay[1] = "FinArea"
                   THEN CeilDiv(layout_info.lay_info_list[i][4] - fin_pitch2 - fin_h2, fin_pitch)
                            * fin_pitch + fin_pitch2 + fin_h2
                   ELSE layout_info.lay_info_list[i][4]
             box == BBox(xl, yb, blk_w, yt)
         IN  draw_layers(tc, layout_info, i + 1,
                         IF is_physical(box)
                         THEN Append(acc, CanvasCall("add_rect", "layer", imp_lay, box))
                         ELSE acc)

\* the loop over adj_info_list
RECURSIVE draw_adj_rows(_, _, _)
draw_adj_rows(layout_info, i, acc) ==
    IF i > Len(layout_info.adj_info_list) THEN acc
    ELSE LET adj_info == layout_info.adj_info_list[i]
             po_xc    == layout_info.array_box_xl + FloorDiv(layout_info.sd_pitch, 2)
             po_xl(idx) == po_xc + idx * layout_info.sd_pitch - FloorDiv(layout_info.lch_unit, 2)
         IN  draw_adj_rows(layout_info, i + 1,
                 acc \o [k \in 1..Len(adj_info.po_types) |->
                            CanvasCall("add_rect", "adj",
                                       IF adj_info.po_types[k] = 0 THEN <<"Poly", "dummy">>
                                       ELSE <<"Poly", "drawing">>,
                                       BBox(po_xl(k - 1), adj_info.po_y[1],
                                            po_xl(k - 1) + layout_info.lch_unit, adj_info.po_y[2]))])

\* the rectangles of one FillInfo: the exclusion layer over the bounding box,
\* then one rectangle per x interval and y interval
draw_fill_info(fill_info, bound_box) ==
    LET nx == Len(fill_info.x_intv_list)
        ny == Len(fill_info.y_intv_list)
    IN  <<CanvasCall("add_rect", "fill", fill_info.exc_layer, bound_box)>>
            \o [k \in 1..(nx * ny) |->
                   LET x == fill_info.x_intv_list[((k - 1) \div ny) + 1]
                       y == fill_info.y_intv_list[((k - 1) % ny) + 1]
                   IN  CanvasCall("add_rect", "fill", fill_info.layer,
                                  BBox(x[1], y[1], x[2], y[2]))]

RECURSIVE draw_fill(_, _, _, _)
draw_fill(layout_info, bound_box, i, acc) ==
    IF i > Len(layout_info.fill_info_list) THEN acc
    ELSE draw_fill(layout_info, bound_box, i + 1,
                   acc \o draw_fill_info(layout_info.fill_info_list[i], bound_box))

\* setting the size: array_box, prim_bound_box, and the cell boundary and the
\* metal fill when the bounding box has area
draw_size_and_fill(layout_info) ==
    LET blk_w     == layout_info.fg * layout_info.sd_pitch + layout_info.array_box_xl
        arr_box   == BBox(layout_info.array_box_xl, layout_info.array_box_y[1],
                          blk_w, layout_info.array_box_y[2])
        bound_box == extend_origin(arr_box)
        size      == <<CanvasCall("set_array_box", "size", "None", arr_box),
                       CanvasCall("set_prim_bound_box", "size", "None", bound_box)>>
    IN  IF is_physical(bound_box)
        THEN draw_fill(layout_info, bound_box, 1,
                       Append(size, CanvasCall("add_cell_boundary", "size", "None", bound_box)))
        ELSE size

\* a draw_mos that sets the size and draws the fill first, then the
\* layers, then the rows
draw_mos_fill_first(tc, layout_info) ==
    LET rows == draw_rows(layout_info, 1, <<>>)
    IN  [status |-> rows.status, val |-> rows.val,
         canvas |-> draw_size_and_fill(layout_info)
                        \o draw_layers(tc, layout_info, 1, <<>>)
                        \o rows.canvas]

\* draw_mos(template, layout_info): the calls made on the template, in order
draw_mos(tc, layout_info) ==
    LET miss == FirstMissing(tc, <<"fin_pitch", "fin_h">>)
        rows == draw_rows(layout_info, 1, <<>>)
    IN  IF miss # "" THEN [status |-> "KeyError", val |-> miss, canvas |-> <<>>]
        ELSE IF rows.status # "ok" THEN rows
        ELSE [status |-> "ok", val |-> "None",
              canvas |-> draw_adj_rows(layout_info, 1,
                             draw_layers(tc, layout_info, 1, rows.canvas))
                         \o draw_size_and_fill(layout_info)]

-----------------------------------------------------------------------------
(* Results of the library helper fill_symmetric_const_space *)

\* Candidate dummy-OD packings of the span of `area` fins starting at fin
\* index `offset`: none, one centred block, or two blocks placed
\* symmetrically, each with the space sp to the span's ends.
OdFinChoices(tc, area, offset) ==
    LET sp  == Min2(FloorDiv(area - tc.od_nfin_min, 2), tc.od_sp_nfin_max)
        sp2 == FloorDiv(area - 2 * tc.od_nfin_min, 3)
    IN  {<<>>,
         <<<<offset + sp, offset + area - sp>>>>,
         <<<<offset + sp2, offset + sp2 + tc.od_nfin_min>>,
           <<offset + area - sp2 - tc.od_nfin_min, offset + area - sp2>>>>}

\* Candidate metal-1 fill intervals of the span [area_yb, area_yt]
FillYChoices(tc, area_yb, area_yt) ==
    {<<>>, <<<<FloorDiv(area_yb + area_yt - tc.m1_fill_lmin, 2), FloorDiv(area_yb + area_yt + tc.m1_fill_lmin, 2)>>>>}

-----------------------------------------------------------------------------
(* Inputs *)

\* channel lengths requested: the supported one and an unsupported one
LchSet == {18, 20}

\* fin counts from od_nfin_min to od_nfin_max
FinCounts == TechConstantsTable.od_nfin_min .. TechConstantsTable.od_nfin_max

MosTypes == {"nch", "pch"}

SubTypes == {"ptap", "ntap"}

\* two known threshold names and one get_mos_layers does not know
Thresholds == {"lvt", "svt", "ulvt"}

\* largest finger count requested
MaxFg == 2

BlkPitches == {1, 90}

\* margins of the ExtInfo records requested (layout units); the code takes
\* any integer, and get_mos_info's own subtractions (blk_yt - d_m3_yt,
\* blk_yt - ds_m1_yt) give negative line-end margins when the wires reach
\* past the block
MaxOdK == 2

MaxImpK == 2

MaxMdK == 1

OdMargins == {175 * k : k \in 0..MaxOdK}

ImpMinWs == {168 * k : k \in 0..MaxImpK}

MdMargins == {45 * k : k \in 0..MaxMdK}

MxMargins == {-100, 0, 100}

M1Margins == {-12, 39}

\* ExtInfo records with every margin varied, of an nch row
ExtInfosByMargin ==
    {ExtInfo(mx, od, md, m1, imp, <<"nch", "nch">>, "svt", Ones(1), EdgeInfo("mos"), EdgeInfo("mos")) :
        mx \in MxMargins, od \in OdMargins, md \in MdMargins, m1 \in M1Margins, imp \in ImpMinWs}

\* ExtInfo records with the row flavor varied
ExtInfosByType ==
    {ExtInfo(0, od, 45, 12, 0, <<t, t>>, th, Ones(1), EdgeInfo(IF t \in MosTypes THEN "mos" ELSE "sub"), EdgeInfo(IF t \in MosTypes THEN "mos" ELSE "sub")) :
        od \in OdMargins, t \in MosTypes \cup SubTypes, th \in {"lvt", "svt"}}

\* largest extension height requested, in fin pitches
MaxExtW == 5

\* requested tracks, doubled: 0..MaxTrack2 stands for tracks 0, 0.5, 1, ...
MaxTrack2 == 4

\* most tracks in one request
MaxReq == 2

TrackRequests ==
    {SortedSeq(S) : S \in {X \in SUBSET (0..MaxTrack2) : Cardinality(X) <= MaxReq}}

\* Y intervals of the rows of a block handed to the drawing and edge
\* methods: the block is BlockHeight high, its PO runs over the whole
\* height, the OD and its contact lie inside
BlockHeight == 384

RowOdY == <<161, 223>>

RowMdY == <<141, 243>>

\* Y interval of the metal-1 fill of such a row
RowM1Y == <<52, 332>>

\* rows handed to draw_substrate_connection in layout_info['row_info_list']:
\* a tap row with OD on all its fingers, a row without OD, or no row
EmptyRow == RowInfo(<<>>, <<0, 0>>, <<"dum", "ptap">>, <<0, 0>>, <<0, 0>>)

RowLists ==
    {<<>>, <<EmptyRow>>}
        \cup {<<RowInfo(<<<<0, fg>>>>, RowOdY, <<"sub", sub_type>>, <<0, BlockHeight>>, RowMdY)>> :
                  fg \in 1..MaxFg, sub_type \in SubTypes}

-----------------------------------------------------------------------------
(* Requests: the solver calls a layout generator makes *)

GateViaRequests ==
    {[fn |-> "get_gate_via_info", lch_unit |-> lch] : lch \in LchSet}

DsViaRequests ==
    {[fn |-> "get_ds_via_info", lch_unit |-> lch, w |-> w] : lch \in LchSet, w \in FinCounts}

MosInfoRequests ==
    {[fn |-> "get_mos_info", lch_unit |-> lch, w |-> w, mos_type |-> mos_type, threshold |-> threshold, fg |-> fg, ds_dummy |-> ds_dummy] :
        lch \in LchSet, w \in FinCounts, mos_type \in MosTypes, threshold \in Thresholds, fg \in 1..MaxFg, ds_dummy \in BOOLEAN}

ValidExtensionWidthsRequests ==
    {[fn |-> "get_valid_extension_widths", lch_unit |-> lch, top_ext_info |-> top, bot_ext_info |-> bot] :
        lch \in LchSet, top \in ExtInfosByMargin, bot \in ExtInfosByMargin}

\* the fin span and metal-1 span get_ext_info hands to the fill helper
ExtOdSpan(tc, w, top, bot) ==
    LET fin_p   == tc.fin_pitch
        fin_p2  == FloorDiv(fin_p, 2)
        fin_h2  == FloorDiv(tc.fin_h, 2)
        bot_fin == FloorDiv(-bot.od_margin - fin_p2 - fin_h2, fin_p)
        top_fin == FloorDiv(w * fin_p + top.od_margin - fin_p2 + fin_h2, fin_p)
    IN  [area |-> top_fin - bot_fin, offset |-> bot_fin,
         m1_yb |-> -bot.m1_margin, m1_yt |-> w * fin_p + top.m1_margin]

\* a get_ext_info request together with the fill helper's answers to it
IsExtInfoRequest(c) ==
    \E lch \in LchSet, w \in 0..MaxExtW, fg \in 1..MaxFg, top \in ExtInfosByType, bot \in ExtInfosByType :
        LET span == ExtOdSpan(TechConstantsTable, w, top, bot)
        IN  \E od_fin_list \in OdFinChoices(TechConstantsTable, span.area, span.offset),
               fill_y_list \in FillYChoices(TechConstantsTable, span.m1_yb, span.m1_yt) :
                c = [fn |-> "get_ext_info", lch_unit |-> lch, w |-> w, fg |-> fg,
                     top_ext_info |-> top, bot_ext_info |-> bot,
                     od_fin_list |-> od_fin_list, fill_y_list |-> fill_y_list]

SubstrateInfoRequests ==
    {[fn |-> "get_substrate_info", lch_unit |-> lch, w |-> w, sub_type |-> sub_type, threshold |-> threshold, fg |-> fg, blk_pitch |-> blk_pitch] :
        lch \in LchSet, w \in FinCounts, sub_type \in SubTypes, threshold \in Thresholds, fg \in 1..MaxFg, blk_pitch \in BlkPitches}

AnalogEndInfoRequests ==
    {[fn |-> "get_analog_end_info", lch_unit |-> lch, sub_type |-> sub_type, threshold |-> threshold, fg |-> fg, is_end |-> is_end, blk_pitch |-> blk_pitch] :
        lch \in LchSet, sub_type \in SubTypes, threshold \in Thresholds, fg \in 1..MaxFg, is_end \in BOOLEAN, blk_pitch \in BlkPitches}

\* a draw_substrate_connection request together with the order in which
\* the set of dummy half-tracks is iterated
IsSubstrateConnectionRequest(c) ==
    \E rows \in RowLists, port_tracks \in TrackRequests, dum_tracks \in TrackRequests, dummy_only \in BOOLEAN, is_guardring \in BOOLEAN :
        \E order \in Orders({dum_tracks[i] + 1 : i \in 1..Len(dum_tracks)}) :
            c = [fn |-> "draw_substrate_connection",
                 layout_info |-> [lch_unit |-> 18, sd_pitch |-> 90, row_info_list |-> rows],
                 port_tracks |-> port_tracks, dum_tracks |-> dum_tracks,
                 dummy_only |-> dummy_only, is_guardring |-> is_guardring, order |-> order]

\* device-type names requested of get_mos_layers: the four it documents
\* and one it does not
LayerMosTypes == MosTypes \cup SubTypes \cup {"bjt"}

\* threshold names requested of get_mos_layers: the six it knows and one it
\* does not
LayerThresholds == {"lvt", "fast", "svt", "standard", "hvt", "low_power", "ulvt"}

MosLayersRequests ==
    {[fn |-> "get_mos_layers", mos_type |-> mos_type, threshold |-> threshold] :
        mos_type \in LayerMosTypes, threshold \in LayerThresholds}

\* guard-ring finger counts requested: -MaxNegNf .. MaxNf
MaxNegNf == 2

MaxNf == 3

GuardRingNfs == (-MaxNegNf)..MaxNf

\* widths of a routing-grid block on the top layer, grid.get_block_size(...)[0]
VmPitches == {1, 90}

EdgeInfoRequests ==
    {[fn |-> "get_edge_info", vm_pitch |-> vm_pitch, lch_unit |-> lch, guard_ring_nf |-> nf, is_end |-> is_end] :
        vm_pitch \in VmPitches, lch \in LchSet, nf \in GuardRingNfs, is_end \in BOOLEAN}

\* the threshold names of the blocks handed over: those get_mos_layers has
\* layers for
LayoutThresholds == {threshold \in Thresholds : get_mos_layers("nch", threshold).status = "ok"}

\* md_w and sd_pitch of every block: the MD width of the technology and the
\* source/drain pitch of get_mos_tech_constants
LayoutMdW == TechConstantsTable.md_w

LayoutSdPitch == get_mos_tech_constants(TechConstantsTable, 18).val.sd_pitch

\* The layout_info dictionaries handed to draw_mos and to the edge and
\* guard-ring methods are the ones the solvers write, with the Y intervals
\* of the row as given.
\* transistor rows: the dictionary get_mos_info writes
MosLayouts ==
    {mos_layout(18, LayoutMdW, fg, LayoutSdPitch, 0, BlockHeight, RowOdY, RowMdY, RowM1Y,
                ds_dummy, mos_type, threshold, get_mos_layers(mos_type, threshold).val) :
        mos_type \in MosTypes, threshold \in LayoutThresholds, fg \in 1..MaxFg,
        ds_dummy \in BOOLEAN}

\* tap rows: the dictionary get_substrate_info writes (imp_params None)
SubLayouts ==
    {sub_layout(18, LayoutMdW, fg, LayoutSdPitch, 0, BlockHeight, RowOdY, RowMdY, RowM1Y,
                sub_type, get_mos_layers(sub_type, threshold).val) :
        sub_type \in SubTypes, threshold \in LayoutThresholds, fg \in 1..MaxFg}

\* end blocks: the dictionary get_analog_end_info writes at an end of the
\* array and between arrays, the CPO there being as high as cpo_h
EndLayouts ==
    {analog_end_steps(TechConstantsTable, TechConstantsTable.cpo_h, LayoutSdPitch, 18, fg,
                      is_end, blk_pitch, get_mos_layers(sub_type, threshold).val).val.layout_info :
        sub_type \in SubTypes, threshold \in LayoutThresholds, fg \in 1..MaxFg,
        is_end \in BOOLEAN, blk_pitch \in BlkPitches}

\* the rows an extension block lies between: two rows of the same
\* transistor, or of the same tap
ExtLayoutRows ==
    {e \in ExtInfosByType : e.od_margin = 175 /\ e.thres \in LayoutThresholds}

\* heights of the extension blocks handed over and the dummy OD rows placed
\* in them: no height, one fin pitch (one CPO, no dummy OD), and MaxExtW fin
\* pitches with each of the fill helper's answers
ExtLayoutShapes(e) ==
    {<<0, <<>>, <<>>>>}
        \cup {<<1, <<>>, fill_y_list>> :
                 fill_y_list \in FillYChoices(TechConstantsTable,
                                              ExtOdSpan(TechConstantsTable, 1, e, e).m1_yb,
                                              ExtOdSpan(TechConstantsTable, 1, e, e).m1_yt)}
        \cup {<<MaxExtW, od_fin_list, fill_y_list>> :
                 od_fin_list \in OdFinChoices(TechConstantsTable,
                                              ExtOdSpan(TechConstantsTable, MaxExtW, e, e).area,
                                              ExtOdSpan(TechConstantsTable, MaxExtW, e, e).offset),
                 fill_y_list \in FillYChoices(TechConstantsTable,
                                              ExtOdSpan(TechConstantsTable, MaxExtW, e, e).m1_yb,
                                              ExtOdSpan(TechConstantsTable, MaxExtW, e, e).m1_yt)}

\* extension blocks: the dictionary get_ext_info writes
ExtLayouts ==
    UNION {{ext_info_steps(TechConstantsTable,
                           get_mos_tech_constants(TechConstantsTable, 18).val.mos_conn_w,
                           LayoutSdPitch, LayoutMdW, 18, shape[1], fg, e, e,
                           shape[2], shape[3]).val.layout_info :
               shape \in ExtLayoutShapes(e), fg \in 1..MaxFg} :
           e \in ExtLayoutRows}

LayoutInfos == MosLayouts \cup SubLayouts \cup EndLayouts \cup ExtLayouts

\* the edge tuples (EdgeInfo, list of EdgeInfo per adjacent row) handed on
\* by the block next to an edge or separator block
AdjBlkInfos(layout_info) ==
    {<<EdgeInfo(t), [i \in 1..Len(layout_info.adj_info_list) |-> EdgeInfo(t)]>> : t \in {"mos", "dum"}}

\* requests on a block whose adj_blk_info is given, and requests that leave
\* it None
OuterEdgeInfoRequests(li) ==
    {[fn |-> "get_outer_edge_info", vm_pitch |-> vm_pitch, guard_ring_nf |-> nf, layout_info |-> li, is_end |-> is_end, adj_blk_info |-> adj] :
        vm_pitch \in VmPitches, nf \in GuardRingNfs, is_end \in BOOLEAN, adj \in AdjBlkInfos(li)}

OuterEdgeInfoDefaultRequests(li) ==
    {[fn |-> "get_outer_edge_info", vm_pitch |-> vm_pitch, guard_ring_nf |-> nf, layout_info |-> li, is_end |-> is_end, adj_blk_info |-> "None"] :
        vm_pitch \in VmPitches, nf \in GuardRingNfs, is_end \in BOOLEAN}

GrSubInfoRequests(li) ==
    {[fn |-> "get_gr_sub_info", guard_ring_nf |-> nf, layout_info |-> li] : nf \in GuardRingNfs}

GrSepInfoRequests(li) ==
    {[fn |-> "get_gr_sep_info", layout_info |-> li, adj_blk_info |-> adj] : adj \in AdjBlkInfos(li)}

\* draw_mos of a block, and of the guard-ring tap, edge and separator
\* blocks get_gr_sub_info, get_outer_edge_info and get_gr_sep_info make of it
IsDrawMosRequest(c, li) ==
    \/ c = [fn |-> "draw_mos", layout_info |-> li]
    \/ \E nf \in GuardRingNfs :
          LET made == get_gr_sub_info(TechConstantsTable, nf, li)
          IN  made.status = "ok" /\ c = [fn |-> "draw_mos", layout_info |-> made.val]
    \/ \E r \in OuterEdgeInfoRequests(li) :
          LET made == get_outer_edge_info(TechConstantsTable, r.vm_pitch, r.guard_ring_nf, li,
                                          r.is_end, r.adj_blk_info)
          IN  made.status = "ok" /\ c = [fn |-> "draw_mos", layout_info |-> made.val]
    \/ \E r \in OuterEdgeInfoDefaultRequests(li) :
          LET made == get_outer_edge_info(TechConstantsTable, r.vm_pitch, r.guard_ring_nf, li,
                                          r.is_end, r.adj_blk_info)
          IN  made.status = "ok" /\ c = [fn |-> "draw_mos", layout_info |-> made.val]
    \/ \E r \in GrSepInfoRequests(li) :
          LET made == get_gr_sep_info(TechConstantsTable, li, r.adj_blk_info)
          IN  made.status = "ok" /\ c = [fn |-> "draw_mos", layout_info |-> made.val]

\* largest extension height, in fin pitches, for which a single dummy is
\* placed
MaxDumW == 6

\* a _get_ext_dummy_loc call with the arguments get_ext_info derives from an
\* extension height and the margins of the rows below and above
IsExtDummyLocRequest(c) ==
    \E w \in 1..MaxDumW, bot_od \in OdMargins, top_od \in OdMargins, bot_md \in MdMargins, top_md \in MdMargins, bot_imp \in ImpMinWs, top_imp \in ImpMinWs :
        LET tc     == TechConstantsTable
            fin_p2 == FloorDiv(tc.fin_pitch, 2)
            fin_h2 == FloorDiv(tc.fin_h, 2)
            yt     == w * tc.fin_pitch
        IN  c = [fn |-> "_get_ext_dummy_loc", lch_unit |-> 18,
                 bot_od_idx |-> FloorDiv(-bot_od - fin_p2 - fin_h2, tc.fin_pitch),
                 top_od_idx |-> FloorDiv(yt + top_od - fin_p2 + fin_h2, tc.fin_pitch),
                 bot_cpo_yt |-> FloorDiv(tc.cpo_h, 2),
                 top_cpo_yb |-> yt - FloorDiv(tc.cpo_h, 2),
                 bot_md_yt |-> -bot_md, top_md_yb |-> yt + top_md,
                 bot_imp_y |-> bot_imp, top_imp_y |-> yt - top_imp]

\* no result yet
Pending == [status |-> "pending"]

-----------------------------------------------------------------------------
(* Operations: each answers the request made at construction *)

Init ==
    /\ tech_constants = TechConstantsTable
    /\ ret = Pending
    /\ log = <<>>
    /\ \/ call \in GateViaRequests
       \/ call \in DsViaRequests
       \/ call \in MosInfoRequests
       \/ call \in ValidExtensionWidthsRequests
       \/ IsExtInfoRequest(call)
       \/ call \in SubstrateInfoRequests
       \/ call \in AnalogEndInfoRequests
       \/ IsSubstrateConnectionRequest(call)
       \/ call \in MosLayersRequests
       \/ call \in EdgeInfoRequests
       \/ \E li \in LayoutInfos :
              \/ call \in OuterEdgeInfoRequests(li)
              \/ call \in OuterEdgeInfoDefaultRequests(li)
              \/ call \in GrSubInfoRequests(li)
              \/ call \in GrSepInfoRequests(li)
              \/ IsDrawMosRequest(call, li)
       \/ IsExtDummyLocRequest(call)

GetGateViaInfo ==
    /\ call.fn = "get_gate_via_info"
    /\ ret = Pending
    /\ ret' = get_gate_via_info(tech_constants, call.lch_unit)
    /\ log' = Append(log, [call |-> call, ret |-> ret'])
    /\ UNCHANGED <<call, tech_constants>>

GetDsViaInfo ==
    /\ call.fn = "get_ds_via_info"
    /\ ret = Pending
    /\ ret' = get_ds_via_info(tech_constants, call.lch_unit, call.w)
    /\ log' = Append(log, [call |-> call, ret |-> ret'])
    /\ UNCHANGED <<call, tech_constants>>

GetMosInfo ==
    /\ call.fn = "get_mos_info"
    /\ ret = Pending
    /\ ret' = get_mos_info(tech_constants, call.lch_unit, call.w, call.mos_type,
                           call.threshold, call.fg, call.ds_dummy)
    /\ log' = Append(log, [call |-> call, ret |-> ret'])
    /\ UNCHANGED <<call, tech_constants>>

GetValidExtensionWidths ==
    /\ call.fn = "get_valid_extension_widths"
    /\ ret = Pending
    /\ ret' = get_valid_extension_widths(tech_constants, call.lch_unit,
                                         call.top_ext_info, call.bot_ext_info)
    /\ LET stores == valid_extension_widths_stores(tech_constants, call.lch_unit,
                                                   call.top_ext_info, call.bot_ext_info)
       IN  /\ call' = call_after(call, stores)
           /\ tech_constants' = tech_constants_after(tech_constants, stores)
    /\ log' = Append(log, [call |-> call, ret |-> ret'])

GetExtInfo ==
    /\ call.fn = "get_ext_info"
    /\ ret = Pending
    /\ ret' = get_ext_info(tech_constants, call.lch_unit, call.w, call.fg,
                           call.top_ext_info, call.bot_ext_info,
                           call.od_fin_list, call.fill_y_list)
    /\ LET stores == ext_info_stores(tech_constants, call.lch_unit, call.w,
                                     call.top_ext_info, call.bot_ext_info,
                                     call.od_fin_list, ret')
       IN  /\ call' = call_after(call, stores)
           /\ tech_constants' = tech_constants_after(tech_constants, stores)
    /\ log' = Append(log, [call |-> call, ret |-> ret'])

GetSubstrateInfo ==
    /\ call.fn = "get_substrate_info"
    /\ ret = Pending
    /\ ret' = get_substrate_info(tech_constants, call.lch_unit, call.w, call.sub_type,
                                 call.threshold, call.fg, call.blk_pitch)
    /\ log' = Append(log, [call |-> call, ret |-> ret'])
    /\ UNCHANGED <<call, tech_constants>>

GetAnalogEndInfo ==
    /\ call.fn = "get_analog_end_info"
    /\ ret = Pending
    /\ ret' = get_analog_end_info(tech_constants, call.lch_unit, call.sub_type,
                                  call.threshold, call.fg, call.is_end, call.blk_pitch)
    /\ log' = Append(log, [call |-> call, ret |-> ret'])
    /\ UNCHANGED <<call, tech_constants>>

DrawSubstrateConnection ==
    /\ call.fn = "draw_substrate_connection"
    /\ ret = Pending
    /\ ret' = draw_substrate_connection(tech_constants, call.layout_info, call.port_tracks,
                                        call.dum_tracks, call.dummy_only, call.is_guardring,
                                        call.order)
    /\ log' = Append(log, [call |-> call, ret |-> ret'])
    /\ UNCHANGED <<call, tech_constants>>

GetMosLayers ==
    /\ call.fn = "get_mos_layers"
    /\ ret = Pending
    /\ ret' = get_mos_layers(call.mos_type, call.threshold)
    /\ log' = Append(log, [call |-> call, ret |-> ret'])
    /\ UNCHANGED <<call, tech_constants>>

GetEdgeInfo ==
    /\ call.fn = "get_edge_info"
    /\ ret = Pending
    /\ ret' = get_edge_info(tech_constants, call.vm_pitch, call.lch_unit,
                            call.guard_ring_nf, call.is_end)
    /\ log' = Append(log, [call |-> call, ret |-> ret'])
    /\ UNCHANGED <<call, tech_constants>>

GetOuterEdgeInfo ==
    /\ call.fn = "get_outer_edge_info"
    /\ ret = Pending
    /\ ret' = get_outer_edge_info(tech_constants, call.vm_pitch, call.guard_ring_nf,
                                  call.layout_info, call.is_end, call.adj_blk_info)
    /\ LET stores == outer_edge_info_stores(tech_constants, call.vm_pitch, call.guard_ring_nf,
                                            call.layout_info, call.is_end, ret')
       IN  /\ call' = call_after(call, stores)
           /\ tech_constants' = tech_constants_after(tech_constants, stores)
    /\ log' = Append(log, [call |-> call, ret |-> ret'])

GetGrSubInfo ==
    /\ call.fn = "get_gr_sub_info"
    /\ ret = Pending
    /\ ret' = get_gr_sub_info(tech_constants, call.guard_ring_nf, call.layout_info)
    /\ LET stores == gr_sub_info_stores(tech_constants, call.guard_ring_nf, call.layout_info)
       IN  /\ call' = call_after(call, stores)
           /\ tech_constants' = tech_constants_after(tech_constants, stores)
    /\ log' = Append(log, [call |-> call, ret |-> ret'])

GetGrSepInfo ==
    /\ call.fn = "get_gr_sep_info"
    /\ ret = Pending
    /\ ret' = get_gr_sep_info(tech_constants, call.layout_info, call.adj_blk_info)
    /\ LET stores == gr_sep_info_stores(tech_constants, call.layout_info, ret')
       IN  /\ call' = call_after(call, stores)
           /\ tech_constants' = tech_constants_after(tech_constants, stores)
    /\ log' = Append(log, [call |-> call, ret |-> ret'])

DrawMos ==
    /\ call.fn = "draw_mos"
    /\ ret = Pending
    /\ ret' = draw_mos(tech_constants, call.layout_info)
    /\ log' = Append(log, [call |-> call, ret |-> ret'])
    /\ UNCHANGED <<call, tech_constants>>

GetExtDummyLoc ==
    /\ call.fn = "_get_ext_dummy_loc"
    /\ ret = Pending
    /\ ret' = Ok(_get_ext_dummy_loc(tech_constants, call.lch_unit, call.bot_od_idx,
                                    call.top_od_idx, call.bot_cpo_yt, call.top_cpo_yb,
                                    call.bot_md_yt, call.top_md_yb, call.bot_imp_y,
                                    call.top_imp_y))
    /\ log' = Append(log, [call |-> call, ret |-> ret'])
    /\ UNCHANGED <<call, tech_constants>>

Next ==
    \/ GetGateViaInfo
    \/ GetDsViaInfo
    \/ GetMosInfo
    \/ GetValidExtensionWidths
    \/ GetExtInfo
    \/ GetSubstrateInfo
    \/ GetAnalogEndInfo
    \/ DrawSubstrateConnection
    \/ GetMosLayers
    \/ GetEdgeInfo
    \/ GetOuterEdgeInfo
    \/ GetGrSubInfo
    \/ GetGrSepInfo
    \/ DrawMos
    \/ GetExtDummyLoc

Spec == Init /\ [][Next]_vars

-----------------------------------------------------------------------------
(* Properties *)

\* the request has been answered
Returned == ret # Pending

\* threshold names get_mos_layers knows
KnownThresholds == {"lvt", "svt", "hvt", "fast", "standard", "low_power"}

\* the request is one of those whose arguments name a threshold, and names
\* a known one, or names none
InDomain ==
    call.fn \in {"get_mos_info", "get_substrate_info", "get_analog_end_info"}
        => call.threshold \in KnownThresholds

\* C1: for the supported channel length and in-domain arguments,
\* get_ds_via_info, get_mos_info, get_substrate_info, get_ext_info and
\* get_analog_end_info each return a result (every constant name they look
\* up is defined).
C1_SolversReturn ==
    (/\ Returned
     /\ call.fn \in {"get_ds_via_info", "get_mos_info", "get_substrate_info", "get_ext_info", "get_analog_end_info"}
     /\ call.lch_unit = 18
     /\ InDomain)
        => ret.status = "ok"

\* a solver called at the supported channel length with in-domain
\* arguments has raised KeyError for a constant name that is not defined
C1_KeyErrorRaised ==
    /\ Returned
    /\ call.fn \in {"get_ds_via_info", "get_mos_info", "get_substrate_info", "get_ext_info", "get_analog_end_info"}
    /\ call.lch_unit = 18
    /\ InDomain
    /\ ret.status = "KeyError"
    /\ ret.val \in {"fin_p", "md_w", "md_od_ext", "cpo_h", "cpo_h_end"}

\* C2: for a channel length other than 18, get_gate_via_info and
\* get_ds_via_info fail with the unsupported-channel-length error (the
\* ValueError of get_mos_tech_constants) and return no via-stack record.
C2_UnsupportedLchRejected ==
    (/\ Returned
     /\ call.fn \in {"get_gate_via_info", "get_ds_via_info"}
     /\ call.lch_unit # 18)
        => ret.status = "ValueError"

\* get_gate_via_info has returned a via-stack record for a channel length
\* other than 18
C2_GateViaInfoReturnedForUnsupportedLch ==
    /\ Returned
    /\ call.fn = "get_gate_via_info"
    /\ call.lch_unit # 18
    /\ ret.status = "ok"

\* the heights get_valid_extension_widths returns for the two ExtInfo
\* records of a get_ext_info request
ValidHeights ==
    LET l == get_valid_extension_widths(tech_constants, call.lch_unit, call.top_ext_info, call.bot_ext_info)
    IN  IF l.status = "ok" THEN {l.val[i] : i \in 1..Len(l.val)} ELSE {}

\* C3: get_ext_info called with a height from the list returned by
\* get_valid_extension_widths for the same two ExtInfo records returns a
\* layout descriptor without raising.
C3_ValidHeightAccepted ==
    (/\ Returned
     /\ call.fn = "get_ext_info"
     /\ call.lch_unit = 18
     /\ call.w \in ValidHeights)
        => ret.status = "ok"

\* get_ext_info has raised for a height taken from the valid list
C3_ValidHeightRaised ==
    /\ Returned
    /\ call.fn = "get_ext_info"
    /\ call.lch_unit = 18
    /\ call.w \in ValidHeights
    /\ ret.status = "KeyError"

\* C4: forbidden gap.  Whenever get_valid_extension_widths returns more
\* than one value, the list is the consecutive integers from min_ext_w up
\* to max_ext_w_no_od followed by the single value min_ext_w_od, and
\* max_ext_w_no_od < min_ext_w_od - 1, so that at least one height
\* strictly between them is left out.
C4_ForbiddenGap ==
    (/\ Returned
     /\ call.fn = "get_valid_extension_widths"
     /\ ret.status = "ok"
     /\ Len(ret.val) > 1)
        => LET l  == ret.val
               n  == Len(l)
               lo == min_ext_w(tech_constants, call.top_ext_info, call.bot_ext_info)
               hi == max_ext_w_no_od(tech_constants, call.top_ext_info, call.bot_ext_info)
               od == min_ext_w_od(tech_constants, call.top_ext_info, call.bot_ext_info)
           IN  /\ l[1] = lo
               /\ \A i \in 1..(n - 2) : l[i + 1] = l[i] + 1
               /\ l[n - 1] = hi
               /\ l[n] = od
               /\ hi < od - 1
               /\ \E h \in (hi + 1)..(od - 1) : \A i \in 1..n : l[i] # h

\* get_valid_extension_widths has returned a no-dummy range of at least
\* two heights followed by the with-dummy minimum
C4_GapListReturned ==
    /\ Returned
    /\ call.fn = "get_valid_extension_widths"
    /\ ret.status = "ok"
    /\ Len(ret.val) > 2

\* C5: get_ext_info called with a height that is not in the list returned
\* by get_valid_extension_widths for the same two ExtInfo records fails
\* with an illegal-extension-height error instead of returning geometry.
C5_IllegalHeightRejected ==
    (/\ Returned
     /\ call.fn = "get_ext_info"
     /\ call.lch_unit = 18
     /\ call.w \notin ValidHeights)
        => ret.status = "IllegalExtensionHeight"

\* get_ext_info has answered a request for a height outside the valid list
\* with an error that is not about the height
C5_IllegalHeightOtherError ==
    /\ Returned
    /\ call.fn = "get_ext_info"
    /\ call.lch_unit = 18
    /\ call.w \notin ValidHeights
    /\ ret.status = "KeyError"

\* the four margins of an ExtInfo record are non-negative
MarginsNonNegative(e) ==
    /\ e.mx_margin >= 0
    /\ e.od_margin >= 0
    /\ e.md_margin >= 0
    /\ e.m1_margin >= 0

\* C6: get_mos_info and get_substrate_info return ExtInfo records
\* (ext_top_info, ext_bot_info) whose mx_margin, od_margin, md_margin and
\* m1_margin are all >= 0, for every fin count from od_nfin_min to
\* od_nfin_max and every block pitch.
C6_MarginsNonNegative ==
    (/\ Returned
     /\ call.fn \in {"get_mos_info", "get_substrate_info"}
     /\ call.lch_unit = 18
     /\ InDomain)
        => /\ ret.status = "ok"
           /\ MarginsNonNegative(ret.val.ext_top_info)
           /\ MarginsNonNegative(ret.val.ext_bot_info)

\* get_mos_info or get_substrate_info has raised instead of publishing
\* margins
C6_NoMarginsPublished ==
    /\ Returned
    /\ call.fn \in {"get_mos_info", "get_substrate_info"}
    /\ call.lch_unit = 18
    /\ InDomain
    /\ ret.status # "ok"

\* C7: the row returned by get_mos_info has an OD interval of height
\* (w - 1) * fin_pitch + fin_h whose center sd_yc is a multiple of
\* fin_pitch for even w and congruent to fin_pitch / 2 modulo fin_pitch
\* for odd w.
C7_OdHeightAndCenter ==
    (/\ Returned
     /\ call.fn = "get_mos_info"
     /\ call.lch_unit = 18
     /\ InDomain)
        => /\ ret.status = "ok"
           /\ LET od_y  == ret.val.layout_info.row_info_list[1].od_y
                  fin_p == tech_constants.fin_pitch
              IN  /\ od_y[2] - od_y[1] = (call.w - 1) * fin_p + tech_constants.fin_h
                  /\ 2 * ret.val.sd_yc = od_y[1] + od_y[2]
                  /\ ret.val.sd_yc % fin_p = (IF call.w % 2 = 0 THEN 0 ELSE FloorDiv(fin_p, 2))

\* get_mos_info has raised KeyError, so no row is returned
C7_NoRowReturned ==
    /\ Returned
    /\ call.fn = "get_mos_info"
    /\ call.lch_unit = 18
    /\ InDomain
    /\ ret.status = "KeyError"

\* C8: for the supported channel length, md_h, m1_h, m2_h, m3_h and
\* num_v0 returned by get_ds_via_info are non-decreasing in the fin count:
\* the outputs for any larger fin count are at least the outputs for w.
C8_DsViaMonotone ==
    (/\ Returned
     /\ call.fn = "get_ds_via_info"
     /\ call.lch_unit = 18)
        => /\ ret.status = "ok"
           /\ \A w2 \in FinCounts :
                 w2 >= call.w =>
                    LET r2 == get_ds_via_info(tech_constants, 18, w2)
                    IN  /\ r2.status = "ok"
                        /\ r2.val.md_h >= ret.val.md_h
                        /\ r2.val.m1_h >= ret.val.m1_h
                        /\ r2.val.m2_h >= ret.val.m2_h
                        /\ r2.val.m3_h >= ret.val.m3_h
                        /\ r2.val.num_v0 >= ret.val.num_v0

\* get_ds_via_info has raised at the supported channel length, so there
\* are no outputs to compare
C8_NoDsViaOutputs ==
    /\ Returned
    /\ call.fn = "get_ds_via_info"
    /\ call.lch_unit = 18
    /\ ret.status # "ok"

\* C9: in get_gate_via_info and get_ds_via_info each metal height (m1_h,
\* m2_h, m3_h) is at least ceil(mx_area_min / md_w), so every published
\* metal height times md_w is at least mx_area_min.
C9_MetalHeightsMeetMinArea ==
    (/\ Returned
     /\ call.fn \in {"get_gate_via_info", "get_ds_via_info"}
     /\ call.lch_unit = 18)
        => /\ ret.status = "ok"
           /\ \A h \in {ret.val.m1_h, ret.val.m2_h, ret.val.m3_h} :
                 /\ h >= CeilDiv(tech_constants.mx_area_min, tech_constants.md_w)
                 /\ h * tech_constants.md_w >= tech_constants.mx_area_min

\* get_gate_via_info has returned a metal-2 height whose area at width
\* md_w is below mx_area_min
C9_GateM2BelowMinArea ==
    /\ Returned
    /\ call.fn = "get_gate_via_info"
    /\ call.lch_unit = 18
    /\ ret.status = "ok"
    /\ ret.val.m2_h * tech_constants.md_w < tech_constants.mx_area_min

\* no two elements of the sequence of M3 via X locations are one track
\* (two half-tracks) apart
NoBackToBack(m3_x_list, sd_pitch) ==
    \A i, j \in 1..Len(m3_x_list) : m3_x_list[i] - m3_x_list[j] # 2 * FloorDiv(sd_pitch, 2)

\* C10: draw_substrate_connection with dummy_only false, on a row with OD,
\* selects port tracks (the M3 via positions) no two of which are exactly
\* two half-tracks apart, for all requested port_tracks and dum_tracks.
C10_NoAdjacentPortTracks ==
    (/\ Returned
     /\ call.fn = "draw_substrate_connection"
     /\ ~call.dummy_only
     /\ \E i \in 1..Len(call.layout_info.row_info_list) :
           call.layout_info.row_info_list[i].od_y[2] > call.layout_info.row_info_list[i].od_y[1])
        => /\ ret.status = "ok"
           /\ \A i \in 1..Len(ret.val.rows) :
                 NoBackToBack(ret.val.rows[i].m3_x_list, call.layout_info.sd_pitch)

\* draw_substrate_connection has raised on a row with OD before any track
\* is selected
C10_RaisedBeforeSelection ==
    /\ Returned
    /\ call.fn = "draw_substrate_connection"
    /\ ~call.dummy_only
    /\ \E i \in 1..Len(call.layout_info.row_info_list) :
          call.layout_info.row_info_list[i].od_y[2] > call.layout_info.row_info_list[i].od_y[1]
    /\ ret.status = "KeyError"

\* the request of a draw_substrate_connection call has a row with OD
HasOdRow ==
    \E i \in 1..Len(call.layout_info.row_info_list) :
        call.layout_info.row_info_list[i].od_y[2] > call.layout_info.row_info_list[i].od_y[1]

\* the X locations of the requested port and dummy tracks, the half-track
\* index of track v being int(2 * v + 1)
RequestedXs ==
    {FloorDiv(call.layout_info.sd_pitch, 2) * (call.port_tracks[i] + 1) : i \in 1..Len(call.port_tracks)}
        \cup {FloorDiv(call.layout_info.sd_pitch, 2) * (call.dum_tracks[i] + 1) : i \in 1..Len(call.dum_tracks)}

\* C11: draw_substrate_connection with dummy_only false, on a row with OD,
\* selects port tracks (the M3 via positions) that are all among the
\* requested port tracks and the requested dummy tracks.
C11_PortTracksWithinRequest ==
    (/\ Returned
     /\ call.fn = "draw_substrate_connection"
     /\ ~call.dummy_only
     /\ HasOdRow)
        => /\ ret.status = "ok"
           /\ \A i \in 1..Len(ret.val.rows) :
                 \A j \in 1..Len(ret.val.rows[i].m3_x_list) :
                    ret.val.rows[i].m3_x_list[j] \in RequestedXs

\* draw_substrate_connection has raised on a row with OD for a request
\* that names port tracks and dummy tracks
C11_RaisedOnNonEmptyRequest ==
    /\ Returned
    /\ call.fn = "draw_substrate_connection"
    /\ ~call.dummy_only
    /\ HasOdRow
    /\ call.port_tracks # <<>>
    /\ call.dum_tracks # <<>>
    /\ ret.status = "KeyError"

\* the answered request is a guard-ring finger count below gr_nf_min = 2 put
\* to get_edge_info (0, meaning no guard ring, excepted) or to get_gr_sub_info
NfBelowMinimum ==
    /\ ret # Pending
    /\ \/ call.fn = "get_edge_info" /\ call.guard_ring_nf < 2 /\ call.guard_ring_nf # 0
       \/ call.fn = "get_gr_sub_info" /\ call.guard_ring_nf < 2

\* C13: a guard-ring finger count below the process minimum is rejected with
\* an error and produces no result: by get_edge_info for every
\* guard_ring_nf < 2 other than 0, negative values included, and by
\* get_gr_sub_info for every guard_ring_nf < 2.
C13_NfBelowMinimumRejected ==
    NfBelowMinimum => ret.status # "ok"

\* get_edge_info answered a negative finger count with an edge record
C13_NegativeNfAccepted ==
    /\ ret # Pending
    /\ call.fn = "get_edge_info"
    /\ call.guard_ring_nf < 0
    /\ ret.status = "ok"

\* the device-type names get_mos_layers documents
KnownMosTypes == {"pch", "nch", "ptap", "ntap"}

\* C14: get_mos_layers fails with an unrecognized-flavor error for every
\* threshold outside {lvt, fast, svt, standard, hvt, low_power} and for every
\* device type outside {pch, nch, ptap, ntap}; it never returns a layer list
\* for an unknown threshold or device type.
C14_UnknownFlavorRejected ==
    (/\ ret # Pending
     /\ call.fn = "get_mos_layers"
     /\ \/ call.threshold \notin KnownThresholds
        \/ call.mos_type \notin KnownMosTypes)
        => ret.status = "Exception"

\* get_mos_layers answered an unknown device type with a layer list
C14_UnknownMosTypeGotLayers ==
    /\ ret # Pending
    /\ call.fn = "get_mos_layers"
    /\ call.mos_type \notin KnownMosTypes
    /\ ret.status = "ok"
    /\ Len(ret.val) > 0

\* positions of the canvas calls a draw_mos call made from the given loop
CallsOf(loop) ==
    {i \in 1..Len(ret.canvas) : ret.canvas[i].loop = loop}

\* positions of the canvas calls with the given operation
CallsOp(op) ==
    {i \in 1..Len(ret.canvas) : ret.canvas[i].op = op}

\* C15: within one draw_mos call every row rectangle (active region, gate,
\* contact) is emitted before any layer rectangle from lay_info_list, every
\* layer rectangle before any fill rectangle, and fill rectangles only after
\* the array box and the bounding box of the block have been set.
C15_CanvasCallsOrdered ==
    (ret # Pending /\ call.fn = "draw_mos") =>
        /\ \A i \in CallsOf("row"), j \in CallsOf("layer") : i < j
        /\ \A i \in CallsOf("layer"), j \in CallsOf("fill") : i < j
        /\ \A j \in CallsOf("fill") :
              /\ \E a \in CallsOp("set_array_box") : a < j
              /\ \E b \in CallsOp("set_prim_bound_box") : b < j

\* a draw_mos call ran to its end and drew row rectangles, layer rectangles
\* and, after the exclusion rectangle over the bounding box, a fill-layer
\* rectangle over an x interval and a y interval of a fill_info
C15_RowsLayersFillDrawn ==
    /\ ret # Pending
    /\ call.fn = "draw_mos"
    /\ ret.status = "ok"
    /\ CallsOf("row") # {}
    /\ CallsOf("layer") # {}
    /\ \E f \in 1..Len(call.layout_info.fill_info_list) :
          LET fill_info == call.layout_info.fill_info_list[f]
          IN  \E x \in 1..Len(fill_info.x_intv_list), y \in 1..Len(fill_info.y_intv_list),
                 j \in CallsOf("fill") :
                  /\ ret.canvas[j].op = "add_rect"
                  /\ ~IsNone(ret.canvas[j].layer)
                  /\ ret.canvas[j].layer = fill_info.layer
                  /\ ret.canvas[j].box[1] = fill_info.x_intv_list[x][1]
                  /\ ret.canvas[j].box[3] = fill_info.x_intv_list[x][2]
                  /\ ret.canvas[j].box[2] = fill_info.y_intv_list[y][1]
                  /\ ret.canvas[j].box[4] = fill_info.y_intv_list[y][2]

\* the solvers that are handed records made by earlier calls
RecordTakers ==
    {"get_outer_edge_info", "get_gr_sub_info", "get_gr_sep_info", "get_ext_info",
     "get_valid_extension_widths"}

\* C16: get_outer_edge_info, get_gr_sub_info, get_gr_sep_info, get_ext_info
\* and get_valid_extension_widths leave the records passed to them
\* unchanged: after the call the input layout_info and ExtInfo records equal
\* their values before the call, and tech_constants is unchanged.
C16_InputsUnchanged ==
    [][(call.fn \in RecordTakers /\ ret = Pending /\ ret' # Pending)
           => (call' = call /\ tech_constants' = tech_constants)]_vars

\* get_gr_sub_info answered a block whose imp_params is None: new_lay_list
\* is the caller's lay_info_list itself, the list is not empty, and the
\* record returned holds it as it was passed
C16_GrSubKeptCallersList ==
    /\ ret # Pending
    /\ call.fn = "get_gr_sub_info"
    /\ ret.status = "ok"
    /\ IsNone(call.layout_info.imp_params)
    /\ gr_sub_new_lay_list(call.layout_info) = CallerList("layout_info", "lay_info_list")
    /\ Len(call.layout_info.lay_info_list) > 0
    /\ ret.val.lay_info_list = call.layout_info.lay_info_list
    /\ Len(gr_sub_info_stores(tech_constants, call.guard_ring_nf, call.layout_info)) > 0

\* a row context is a transistor row; its implant flavor
IsTran(ext_info) == ext_info.mtype[2] \in {"nch", "pch"}

ImpOf(ext_info) == IF ext_info.mtype[2] \in {"nch", "ptap"} THEN "nch" ELSE "pch"

\* an answered get_ext_info request of positive height at the supported
\* channel length
ExtAnswered ==
    /\ ret # Pending
    /\ call.fn = "get_ext_info"
    /\ call.lch_unit = 18
    /\ call.w > 0

\* the two split candidates of the request
SplitCandidates ==
    ext_imp_split_y(tech_constants, call.w, call.od_fin_list = <<>>,
                    ext_od_md_y_lists(tech_constants, call.lch_unit, call.w, call.top_ext_info,
                                      call.bot_ext_info, call.od_fin_list)[1])

\* same flavor, one transistor row and one tap row
SplitCase1 ==
    /\ ImpOf(call.bot_ext_info) = ImpOf(call.top_ext_info)
    /\ IsTran(call.bot_ext_info) # IsTran(call.top_ext_info)

\* C17: implant split case 1: with the same flavor above and below and
\* exactly one transistor row, the implant region of the transistor side
\* extends from the transistor's edge of the block to the split candidate on
\* the tap side.
C17_TransistorRegionToTapSide ==
    (ExtAnswered /\ SplitCase1) =>
        /\ ret.status = "ok"
        /\ IF IsTran(call.bot_ext_info)
           THEN /\ ret.val.layout_info.imp_params[1][3] = 0
                /\ ret.val.layout_info.imp_params[1][4] = SplitCandidates[2]
           ELSE /\ ret.val.layout_info.imp_params[2][3] = SplitCandidates[1]
                /\ ret.val.layout_info.imp_params[2][4] = call.w * tech_constants.fin_pitch

\* a case 1 request ended in KeyError 'md_w'
C17_Case1Raised ==
    /\ ExtAnswered
    /\ SplitCase1
    /\ ret.status = "KeyError"
    /\ ret.val = "md_w"

\* different flavors, one transistor row and one tap row
SplitCase5 ==
    /\ ImpOf(call.bot_ext_info) # ImpOf(call.top_ext_info)
    /\ IsTran(call.bot_ext_info) # IsTran(call.top_ext_info)

\* the transistor row of a request with exactly one
TranSide ==
    IF IsTran(call.bot_ext_info) THEN call.bot_ext_info ELSE call.top_ext_info

\* C18: implant split case 5: with different flavors and exactly one
\* transistor row, both entries of imp_params carry the transistor's device
\* type and the transistor's threshold.
C18_BothRegionsTakeTransistorFlavor ==
    (ExtAnswered /\ SplitCase5) =>
        /\ ret.status = "ok"
        /\ \A k \in 1..2 :
              /\ ret.val.layout_info.imp_params[k][1] = ImpOf(TranSide)
              /\ ret.val.layout_info.imp_params[k][2] = TranSide.thres

\* a case 5 request ended in KeyError 'md_w'
C18_Case5Raised ==
    /\ ExtAnswered
    /\ SplitCase5
    /\ ret.status = "KeyError"
    /\ ret.val = "md_w"

\* both contexts are transistor rows and the block has a dummy active region
BothTranWithOd ==
    /\ IsTran(call.bot_ext_info)
    /\ IsTran(call.top_ext_info)
    /\ call.od_fin_list # <<>>

\* C19: checkerboard avoidance: with transistor rows on both sides and a
\* dummy active region in the block, each implant region gets a device
\* implant type ('nch' or 'pch', never 'ptap' / 'ntap'): the same type in
\* both halves for equal flavors, each side's own type for different ones.
C19_DeviceImplantOnBothHalves ==
    (ExtAnswered /\ BothTranWithOd) =>
        /\ ret.status = "ok"
        /\ ret.val.layout_info.imp_params[1][1] = ImpOf(call.bot_ext_info)
        /\ ret.val.layout_info.imp_params[2][1] = ImpOf(call.top_ext_info)

\* a request between two transistor rows with a dummy active region ended
\* in KeyError 'md_w'
C19_BothTranRaised ==
    /\ ExtAnswered
    /\ BothTranWithOd
    /\ ret.status = "KeyError"
    /\ ret.val = "md_w"

\* the requested dummy tracks (doubled) that are not one track, i.e. two
\* half-tracks, from any requested port track
FreeDummyTracks ==
    {call.dum_tracks[i] : i \in 1..Len(call.dum_tracks)}
        \ {d \in 0..MaxTrack2 : \E j \in 1..Len(call.port_tracks) :
               d - call.port_tracks[j] = 2 \/ call.port_tracks[j] - d = 2}

\* C20: step 1 of the track selection in draw_substrate_connection: every
\* requested dummy track that is not adjacent (half-track difference 2) to
\* any requested port track is in the final port-track set, also when two
\* such dummy tracks are adjacent to each other.
C20_FreeDummyTracksPromoted ==
    (/\ Returned
     /\ call.fn = "draw_substrate_connection"
     /\ ~call.dummy_only
     /\ HasOdRow)
        => /\ ret.status = "ok"
           /\ \A i \in 1..Len(ret.val.rows) : \A d \in FreeDummyTracks :
                 \E j \in 1..Len(ret.val.rows[i].m3_x_list) :
                    ret.val.rows[i].m3_x_list[j] = FloorDiv(call.layout_info.sd_pitch, 2) * (d + 1)

\* draw_substrate_connection has raised on a row with OD for a request with
\* two free dummy tracks that are adjacent to each other
C20_RaisedWithAdjacentDummies ==
    /\ Returned
    /\ call.fn = "draw_substrate_connection"
    /\ ~call.dummy_only
    /\ HasOdRow
    /\ \E d, e \in FreeDummyTracks : e - d = 2
    /\ ret.status = "KeyError"

\* C21: in get_substrate_info, after the block height is rounded up to a
\* multiple of lcm(blk_pitch, fin_pitch), the active region is vertically
\* centered in the final block for every fin count and block pitch:
\* ext_bot_info.od_margin = ext_top_info.od_margin.
C21_OdCenteredAfterRounding ==
    (/\ Returned
     /\ call.fn = "get_substrate_info"
     /\ call.lch_unit = 18
     /\ call.threshold \in KnownThresholds)
        => /\ ret.status = "ok"
           /\ ret.val.ext_bot_info.od_margin = ret.val.ext_top_info.od_margin

\* get_substrate_info, asked for a block pitch that is not a divisor of the
\* fin pitch, has raised KeyError 'md_od_ext'
C21_SubstrateRaisedOnCoarsePitch ==
    /\ Returned
    /\ call.fn = "get_substrate_info"
    /\ call.lch_unit = 18
    /\ call.threshold \in KnownThresholds
    /\ tech_constants.fin_pitch % call.blk_pitch # 0
    /\ ret.status = "KeyError"
    /\ ret.val = "md_od_ext"

\* the canvas of the answered draw_mos call holds a contact rectangle of
\* the row at contact position idx
MdRectDrawn(row_info, idx) ==
    \E k \in 1..Len(ret.canvas) :
        /\ ret.canvas[k].loop = "row"
        /\ ret.canvas[k].layer = <<"LiAct", "drawing">>
        /\ ret.canvas[k].box =
               BBox(call.layout_info.array_box_xl + idx * call.layout_info.sd_pitch
                        - FloorDiv(call.layout_info.md_w, 2),
                    row_info.md_y[1],
                    call.layout_info.array_box_xl + idx * call.layout_info.sd_pitch
                        - FloorDiv(call.layout_info.md_w, 2) + call.layout_info.md_w,
                    row_info.md_y[2])

\* the rows of the request whose contact interval is physical
MdRows ==
    {i \in 1..Len(call.layout_info.row_info_list) :
        call.layout_info.row_info_list[i].md_y[2] > call.layout_info.row_info_list[i].md_y[1]}

\* C22: in draw_mos, for a block flagged 'gr_sub' contact rectangles are
\* skipped at the interior contact positions (0 < idx < fg); for every other
\* block type one contact rectangle is emitted for each contact position
\* that lies on an active region.
C22_ContactRectangles ==
    (Returned /\ call.fn = "draw_mos" /\ call.layout_info.fg > 0) =>
        IF call.layout_info.blk_type = "gr_sub"
        THEN \A i \in MdRows : \A idx \in 1..(call.layout_info.fg - 1) :
                 ~MdRectDrawn(call.layout_info.row_info_list[i], idx)
        ELSE /\ ret.status = "ok"
             /\ \A i \in MdRows : \A idx \in 0..call.layout_info.fg :
                   md_on_od(call.layout_info.row_info_list[i], idx)
                       => MdRectDrawn(call.layout_info.row_info_list[i], idx)

\* draw_mos drew a contact rectangle at an interior position of a
\* guard-ring tap block
C22_GrSubInteriorContactDrawn ==
    /\ Returned
    /\ call.fn = "draw_mos"
    /\ call.layout_info.blk_type = "gr_sub"
    /\ ret.status = "ok"
    /\ \E i \in MdRows : \E idx \in 1..(call.layout_info.fg - 1) :
          MdRectDrawn(call.layout_info.row_info_list[i], idx)

\* the window of an answered _get_ext_dummy_loc request: the contact window
\* [md_yb_min, md_yt_max] and the active-region window [od_yb_min, od_yt_max]
DumMdYbMin == call.bot_md_yt + tech_constants.md_sp

DumMdYtMax == call.top_md_yb - tech_constants.md_sp

DumOdYbMin ==
    Max3(call.bot_cpo_yt + tech_constants.cpo_od_sp, DumMdYbMin + tech_constants.md_od_exty,
         call.bot_imp_y + tech_constants.imp_od_ency)

DumOdYtMax ==
    Min3(call.top_cpo_yb - tech_constants.cpo_od_sp, DumMdYtMax - tech_constants.md_od_exty,
         call.top_imp_y - tech_constants.imp_od_ency)

\* y is the bottom (top) edge of a fin-grid-aligned active region
OnFinGridBottom(y) ==
    (y - FloorDiv(tech_constants.fin_pitch, 2) + FloorDiv(tech_constants.fin_h, 2))
        % tech_constants.fin_pitch = 0

OnFinGridTop(y) ==
    (y - FloorDiv(tech_constants.fin_pitch, 2) - FloorDiv(tech_constants.fin_h, 2))
        % tech_constants.fin_pitch = 0

DumOdHMin == (tech_constants.od_nfin_min - 1) * tech_constants.fin_pitch + tech_constants.fin_h

\* the window can hold a fin-grid-aligned active region of the minimum height
DumWindowHoldsOd ==
    \E y \in DumOdYbMin..(DumOdYtMax - DumOdHMin) : OnFinGridBottom(y)

\* C23: single-dummy placement: whenever the allowed window can hold a
\* fin-grid-aligned active region of the minimum height, the returned
\* active-region interval lies inside the window, has at least the minimum
\* height and both edges on the fin grid, and the returned contact interval
\* lies inside [bot_md_yt + md_sp, top_md_yb - md_sp], has height >= md_h_min
\* and extends at least md_od_exty beyond the active region on both sides.
C23_SingleDummyLegal ==
    (Returned /\ call.fn = "_get_ext_dummy_loc" /\ DumWindowHoldsOd) =>
        /\ ret.status = "ok"
        /\ LET od == ret.val[1][1]
               md == ret.val[2][1]
           IN  /\ od[1] >= DumOdYbMin
               /\ od[2] <= DumOdYtMax
               /\ od[2] - od[1] >= DumOdHMin
               /\ OnFinGridBottom(od[1])
               /\ OnFinGridTop(od[2])
               /\ md[1] >= DumMdYbMin
               /\ md[2] <= DumMdYtMax
               /\ md[2] - md[1] >= tech_constants.md_h_min
               /\ md[1] <= od[1] - tech_constants.md_od_exty
               /\ md[2] >= od[2] + tech_constants.md_od_exty

\* a placement was returned for a window that holds a minimum active region
\* but not the first guess, which had to be moved up from below the window
C23_DummyClampedIntoWindow ==
    /\ Returned
    /\ call.fn = "_get_ext_dummy_loc"
    /\ DumWindowHoldsOd
    /\ ret.status = "ok"
    /\ _get_ext_dummy_loc_unclamped(tech_constants, call.lch_unit, call.bot_od_idx,
                                    call.top_od_idx, call.bot_cpo_yt, call.top_cpo_yb,
                                    call.bot_md_yt, call.top_md_yb, call.bot_imp_y,
                                    call.top_imp_y)[1][1][1] < DumOdYbMin

\* the minimum extension height of the answered request: the largest of 0,
\* the line-end, the contact-spacing and the implant-width obligations
MinExtHeight ==
    LET top == call.top_ext_info
        bot == call.bot_ext_info
        fin_pitch == tech_constants.fin_pitch
        line_end == CeilDiv(tech_constants.mx_spy_min
                                - Min2(top.mx_margin + bot.mx_margin, top.m1_margin + bot.m1_margin),
                            fin_pitch)
        md_space == CeilDiv(tech_constants.md_sp - (top.md_margin + bot.md_margin), fin_pitch)
        implant  == CeilDiv(top.imp_min_w + bot.imp_min_w, fin_pitch)
    IN  Max2(Max2(0, line_end), Max2(md_space, implant))

\* the smaller of the two summed line-end margins of the answered request
LineEndMargin ==
    Min2(call.top_ext_info.mx_margin + call.bot_ext_info.mx_margin,
         call.top_ext_info.m1_margin + call.bot_ext_info.m1_margin)

\* C24 as stated: for every pair of ExtInfo records, every height in the list
\* returned by get_valid_extension_widths, the with-dummy minimum appended
\* after the gap included, is >= the minimum extension height; the list is
\* non-empty and strictly increasing.
C24_AnyPairAtLeastMinimum ==
    (Returned /\ call.fn = "get_valid_extension_widths") =>
        /\ ret.status = "ok"
        /\ Len(ret.val) >= 1
        /\ \A i \in 1..Len(ret.val) : ret.val[i] >= MinExtHeight
        /\ \A i \in 1..(Len(ret.val) - 1) : ret.val[i] < ret.val[i + 1]

\* C24 amended: for every pair of ExtInfo records the returned list is
\* non-empty and strictly increasing; when neither summed line-end margin
\* (mx_margin, m1_margin) of the pair is negative, every height in it, the
\* appended with-dummy minimum included, is >= the minimum extension height.
C24_HeightsAtLeastMinimum ==
    (Returned /\ call.fn = "get_valid_extension_widths") =>
        /\ ret.status = "ok"
        /\ Len(ret.val) >= 1
        /\ \A i \in 1..(Len(ret.val) - 1) : ret.val[i] < ret.val[i + 1]
        /\ LineEndMargin >= 0 =>
               \A i \in 1..Len(ret.val) : ret.val[i] >= MinExtHeight

\* a list with a gap was returned for a pair whose minimum height is set by
\* the implant widths: no-dummy heights followed by the with-dummy minimum
C24_GapListAboveImplantMinimum ==
    /\ Returned
    /\ call.fn = "get_valid_extension_widths"
    /\ ret.status = "ok"
    /\ Len(ret.val) >= 2
    /\ ret.val[Len(ret.val)] > ret.val[Len(ret.val) - 1] + 1
    /\ LineEndMargin >= 0
    /\ MinExtHeight = CeilDiv(call.top_ext_info.imp_min_w + call.bot_ext_info.imp_min_w,
                              tech_constants.fin_pitch)
    /\ MinExtHeight > 2

\* C25: for every fin count from od_nfin_min to od_nfin_max get_ds_via_info
\* computes num_v0 >= 1, and the stacked first-level vias with their bottom
\* enclosure fit in the contact height md_h.
C25_DsViasFitContact ==
    (/\ Returned
     /\ call.fn = "get_ds_via_info"
     /\ call.w \in tech_constants.od_nfin_min .. tech_constants.od_nfin_max) =>
        /\ ret.status = "ok"
        /\ ret.val.num_v0 >= 1
        /\ ret.val.num_v0 * (ret.val.h[1] + tech_constants.v0_sp) - tech_constants.v0_sp
               + 2 * ret.val.bot_ency[1] <= ret.val.md_h

\* the smallest fin count was asked for and no via count came back: the
\* lookup of fin_p failed before num_v0 was computed
C25_NoViaCountForSmallestFinCount ==
    /\ Returned
    /\ call.fn = "get_ds_via_info"
    /\ call.w = tech_constants.od_nfin_min
    /\ ret.status = "KeyError"
    /\ ret.val = "fin_p"

\* what get_edge_info answers for the guard ring of the answered
\* get_gr_sub_info request (the block pitch and is_end do not enter gr_sub_fg)
GrSubEdgeInfo ==
    get_edge_info(tech_constants, 1, call.layout_info.lch_unit, call.guard_ring_nf, FALSE)

\* C26: for every guard_ring_nf >= gr_nf_min the finger count fg returned by
\* get_gr_sub_info equals the gr_sub_fg returned by get_edge_info for the
\* same guard_ring_nf (guard_ring_nf + 2 + 2 * gr_sub_fg_margin), and the
\* active-region X interval of its rows spans guard_ring_nf fingers.
C26_GrSubSizedAsEdge ==
    (/\ Returned
     /\ call.fn = "get_gr_sub_info"
     /\ GrSubEdgeInfo.status = "ok"
     /\ call.guard_ring_nf >= get_edge_tech_constants(tech_constants, call.layout_info.lch_unit).val.gr_nf_min) =>
        /\ ret.status = "ok"
        /\ ret.val.fg = GrSubEdgeInfo.val.gr_sub_fg
        /\ ret.val.fg = call.guard_ring_nf + 2
               + 2 * get_edge_tech_constants(tech_constants, call.layout_info.lch_unit).val.gr_sub_fg_margin
        /\ \A i \in 1..Len(ret.val.row_info_list) :
               LET od_x == ret.val.row_info_list[i].od_x_list[1]
               IN  od_x[2] - od_x[1] = call.guard_ring_nf

\* a guard ring wider than the minimum was asked for and the tap block came
\* back one finger narrower than the edge computation reserves for it
C26_GrSubNarrowerThanEdge ==
    /\ Returned
    /\ call.fn = "get_gr_sub_info"
    /\ call.guard_ring_nf = 3
    /\ ret.status = "ok"
    /\ GrSubEdgeInfo.status = "ok"
    /\ GrSubEdgeInfo.val.gr_sub_fg = 7
    /\ ret.val.fg = 6
    /\ Len(ret.val.row_info_list) >= 1
    /\ ret.val.row_info_list[1].od_x_list = <<<<2, 4>>>>

\* C27: draw_mos applied to a layout with at least one row whose contact
\* interval is physical, fg > 0 and a block type other than 'gr_sub' runs to
\* completion: deciding whether the boundary contacts are drawn never reads
\* a field the left/right EdgeInfo record does not have.
C27_DrawMosCompletes ==
    (/\ Returned
     /\ call.fn = "draw_mos"
     /\ MdRows # {}
     /\ call.layout_info.fg > 0
     /\ call.layout_info.blk_type # "gr_sub") =>
        ret.status = "ok"

\* draw_mos stopped at the first boundary contact of a transistor row: the
\* edge record has no draw_md field, and nothing past the row's OD and PO
\* reached the canvas
C27_BoundaryContactReadsDrawMd ==
    /\ Returned
    /\ call.fn = "draw_mos"
    /\ MdRows # {}
    /\ call.layout_info.fg > 0
    /\ call.layout_info.blk_type # "gr_sub"
    /\ ret.status = "AttributeError"
    /\ ret.val = "draw_md"
    /\ \A k \in 1..Len(ret.canvas) : ret.canvas[k].layer # <<"LiAct", "drawing">>

\* the half-track indices of the requested dummy tracks, and the track
\* selection of the answered request for row i when they are visited in the
\* given order
RequestedDhtr ==
    {call.dum_tracks[i] + 1 : i \in 1..Len(call.dum_tracks)}

SelectionOfRow(i, order) ==
    LET od_x == call.layout_info.row_info_list[i].od_x_list[1]
    IN  select_tracks(call.port_tracks, call.dum_tracks, od_x[2] - od_x[1], order)

\* the rows of the request that have OD
OdRows ==
    {i \in 1..Len(call.layout_info.row_info_list) :
        call.layout_info.row_info_list[i].od_y[2] > call.layout_info.row_info_list[i].od_y[1]}

\* C28: the track selection of draw_substrate_connection does not depend on
\* the order in which the requested dummy tracks are visited in step 1: for
\* every request all visiting orders give the same final port-track set and
\* the same final dummy (M1) track set.
C28_SelectionOrderIndependent ==
    (/\ Returned
     /\ call.fn = "draw_substrate_connection"
     /\ ~call.dummy_only
     /\ HasOdRow) =>
        /\ ret.status = "ok"
        /\ \A i \in OdRows :
              \A o1, o2 \in Orders(RequestedDhtr) :
                 /\ SelectionOfRow(i, o1).phtr_set = SelectionOfRow(i, o2).phtr_set
                 /\ SelectionOfRow(i, o1).dhtr_set = SelectionOfRow(i, o2).dhtr_set

\* two neighbouring dummy tracks were requested: the one visited first
\* becomes a port track and shuts the other out, so the reversed visiting
\* order selects a different port-track set
C28_NeighbouringDummiesOrderDependent ==
    /\ Returned
    /\ call.fn = "draw_substrate_connection"
    /\ ~call.dummy_only
    /\ call.port_tracks = <<>>
    /\ call.dum_tracks = <<0, 2>>
    /\ \E i \in OdRows :
          /\ call.layout_info.row_info_list[i].od_x_list = <<<<0, 2>>>>
          /\ SelectionOfRow(i, <<1, 3>>).phtr_set = {0, 1, 4}
          /\ SelectionOfRow(i, <<3, 1>>).phtr_set = {0, 3, 4}

\* the answer to the answered get_valid_extension_widths request with the
\* rows above and below exchanged
MirroredWidths ==
    get_valid_extension_widths(tech_constants, call.lch_unit, call.bot_ext_info, call.top_ext_info)

\* C29: get_valid_extension_widths is mirror-symmetric: the list returned
\* for (top = A, bottom = B) equals the list returned for (top = B,
\* bottom = A), for all pairs of ExtInfo records.
C29_MirrorSymmetric ==
    (Returned /\ call.fn = "get_valid_extension_widths") =>
        /\ ret.status = "ok"
        /\ MirroredWidths.status = "ok"
        /\ Len(MirroredWidths.val) = Len(ret.val)
        /\ \A i \in 1..Len(ret.val) : MirroredWidths.val[i] = ret.val[i]

\* a list was returned for two rows that differ in every margin the
\* function reads, the wider implant being above, and the with-dummy minimum
\* is set by that implant
C29_UnequalRowsAnswered ==
    /\ Returned
    /\ call.fn = "get_valid_extension_widths"
    /\ ret.status = "ok"
    /\ call.top_ext_info.imp_min_w > call.bot_ext_info.imp_min_w
    /\ call.top_ext_info.mx_margin # call.bot_ext_info.mx_margin
    /\ call.top_ext_info.m1_margin # call.bot_ext_info.m1_margin
    /\ call.top_ext_info.od_margin # call.bot_ext_info.od_margin
    /\ call.top_ext_info.md_margin # call.bot_ext_info.md_margin
    /\ Len(ret.val) >= 1
    /\ ret.val[Len(ret.val)] = min_ext_w_od(tech_constants, call.top_ext_info, call.bot_ext_info)
    /\ ret.val[Len(ret.val)] > min_ext_w_od(tech_constants, call.bot_ext_info, call.bot_ext_info)

\* the sum g_m2_yb + g_m2_yt of the gate second-metal interval behind the
\* g_conn_y of an answered get_mos_info request: the third-metal top is set
\* half a wire height above it
GateM2Sum ==
    ret.val.g_conn_y[2] - FloorDiv(get_gate_via_info(tech_constants, call.lch_unit).val.m3_h, 2)

\* C30: in get_mos_info the gate third-metal interval published as g_conn_y
\* is vertically centered on the gate second-metal interval: g_m3_yb +
\* g_m3_yt differs from g_m2_yb + g_m2_yt by at most 1, for every fin count.
C30_GateM3CenteredOnM2 ==
    (/\ Returned
     /\ call.fn = "get_mos_info"
     /\ call.lch_unit = 18
     /\ call.threshold \in KnownThresholds) =>
        /\ ret.status = "ok"
        /\ ret.val.g_conn_y[1] + ret.val.g_conn_y[2] - GateM2Sum <= 1
        /\ GateM2Sum - (ret.val.g_conn_y[1] + ret.val.g_conn_y[2]) <= 1

\* get_mos_info was asked for the widest transistor and published no gate
\* interval: the gate via stack was solved, the drain/source stack raised
C30_NoGateIntervalPublished ==
    /\ Returned
    /\ call.fn = "get_mos_info"
    /\ call.lch_unit = 18
    /\ call.threshold \in KnownThresholds
    /\ call.w = tech_constants.od_nfin_max
    /\ get_gate_via_info(tech_constants, call.lch_unit).status = "ok"
    /\ ret.status = "KeyError"
    /\ ret.val = "fin_p"

=============================================================================
